---------------------------- MODULE Spec2Model ----------------------------
(***************************************************************************)
(* Gateway route specifications of aws-appmesh: the match builders, the    *)
(* rewrite builders and GatewayRouteSpec.bind (gateway-route-spec.ts).     *)
(*                                                                         *)
(* A TypeScript value that may be undefined is a sequence of length 0      *)
(* (undefined) or 1 (the value).  A prefix is a sequence of characters, so *)
(* that its first character can be read as the code reads prefixPath[0].   *)
(***************************************************************************)
EXTENDS Integers, Sequences, FiniteSets, TLC

VARIABLES factory, options, spec, result, previous, calls, scopeTree,
          trust, trustConfig

vars == <<factory, options, spec, result, previous, calls, scopeTree,
          trust, trustConfig>>

(***************************************************************************)
(* Bounds of the model.                                                    *)
(***************************************************************************)
MaxPrefixLen == 1
MaxMetadataLen == 2
MaxAuthorities == 3

(***************************************************************************)
(* undefined / defined values, and JavaScript truthiness.                  *)
(***************************************************************************)
None == <<>>
Some(v) == <<v>>
IsSome(o) == o # <<>>
Get(o) == o[1]

\* o?.f : undefined when o is undefined, else the field (itself optional)
Opt(o, f) == IF IsSome(o) THEN Get(o)[f] ELSE None

\* truthiness of an optional string: undefined and '' are falsy
TruthyString(o) == IsSome(o) /\ Get(o) # <<>>

\* truthiness of an optional object: only undefined is falsy
TruthyObject(o) == IsSome(o)

SeqsUpTo(S, n) == UNION {[1..k -> S] : k \in 0..n}
Optional(S) == {None} \cup {Some(v) : v \in S}

(***************************************************************************)
(* Input values.                                                           *)
(***************************************************************************)
Chars == {"/", "a"}
Prefixes == SeqsUpTo(Chars, MaxPrefixLen)
Scopes == {"scopeA", "scopeB"}
VirtualServices == {[virtualServiceName |-> "svc-a"], [virtualServiceName |-> "svc-b"]}

\* enum Default
Default_ENABLED == "enabled"
Default_DISABLED == "disabled"
Default == {Default_ENABLED, Default_DISABLED}

\* enum Method (two of its four members are drawn as inputs)
Method == {"GET", "POST"}

\* enum Protocol
Protocol_HTTP == "http"
Protocol_HTTP2 == "http2"

(***************************************************************************)
(* Leaf criteria.                                                          *)
(***************************************************************************)
GatewayRouteHostname_matchingExactly(name) ==
    [matchProperty |-> [exact |-> Some(name), suffix |-> None]]

GatewayRouteHostname_matchingSuffix(suffix) ==
    [matchProperty |-> [exact |-> None, suffix |-> Some(suffix)]]

GatewayRouteHostnameImpl_bind(self, scope) ==
    [hostnameMatch |-> self.matchProperty]

HttpPathMatch_matchingExactly(path) ==
    [pathMatch |-> [exact |-> Some(path), regex |-> None]]

HttpPathMatch_matchingRegex(regex) ==
    [pathMatch |-> [exact |-> None, regex |-> Some(regex)]]

HttpPathMatchImpl_bind(self, scope) ==
    [pathMatch |-> self.pathMatch]

QueryParameterMatch_valueIs(queryParameterName, queryParameterValue) ==
    [queryParameterName |-> queryParameterName,
     matchProperty |-> [exact |-> queryParameterValue]]

QueryParameterMatchImpl_bind(self, scope) ==
    [queryParameter |-> [match |-> self.matchProperty,
                         name |-> self.queryParameterName]]

\* HttpHeaderMatch is imported from './route-spec': a value holder whose bind
\* returns the header property it was built with.
HttpHeaderMatch_bind(self, scope) ==
    [httpRouteHeader |-> self.headerProperty]

GatewayRouteHostnames ==
    {GatewayRouteHostname_matchingExactly("example.com"),
     GatewayRouteHostname_matchingSuffix(".example.com")}
HttpPathMatches ==
    {HttpPathMatch_matchingExactly("/health"), HttpPathMatch_matchingRegex("/h.*")}
QueryParameterMatches == {QueryParameterMatch_valueIs("q", "v")}
HttpHeaderMatches == {[headerProperty |-> [name |-> "x-id", invert |-> FALSE]]}

(***************************************************************************)
(* HttpGatewayRoutePathOrPrefixMatch: the prefixOrPath option.             *)
(***************************************************************************)
EmptyHttpRequestMatch ==
    [prefix |-> None, path |-> None, headers |-> None, hostname |-> None,
     method |-> None, queryParameters |-> None]

HttpGatewayRoutePathOrPrefixMatch_prefix(path) ==
    [class |-> "HttpGatewayRoutePrefixMatchImpl", prefix |-> path]

HttpGatewayRoutePathOrPrefixMatch_path(pathMatch) ==
    [class |-> "HttpGatewayRoutePathMatchImpl", pathMatch |-> pathMatch]

HttpGatewayRoutePrefixMatchImpl_bind(self, scope) ==
    [requestMatch |-> [EmptyHttpRequestMatch EXCEPT !.prefix = Some(self.prefix)]]

HttpGatewayRoutePathMatchImpl_bind(self, scope) ==
    [requestMatch |-> [EmptyHttpRequestMatch EXCEPT
        !.path = Some(HttpPathMatchImpl_bind(self.pathMatch, scope).pathMatch)]]

HttpGatewayRoutePathOrPrefixMatch_bind(self, scope) ==
    IF self.class = "HttpGatewayRoutePrefixMatchImpl"
    THEN HttpGatewayRoutePrefixMatchImpl_bind(self, scope)
    ELSE HttpGatewayRoutePathMatchImpl_bind(self, scope)

HttpGatewayRoutePathOrPrefixMatches ==
    {HttpGatewayRoutePathOrPrefixMatch_prefix(p) : p \in Prefixes}
    \cup {HttpGatewayRoutePathOrPrefixMatch_path(pm) : pm \in HttpPathMatches}

(***************************************************************************)
(* HttpGatewayRouteMatch: the six entry points and their bind methods.     *)
(***************************************************************************)
HttpGatewayRouteMatch_prefix(path, opts) ==
    [class |-> "HttpGatewayRoutePrefixMatch", prefix |-> path, options |-> opts]

HttpGatewayRouteMatch_header(headers, opts) ==
    [class |-> "HttpGatewayRouteHeaderMatch", header |-> headers, options |-> opts]

HttpGatewayRouteMatch_hostname(hostname, opts) ==
    [class |-> "HttpGatewayRouteHostnameMatch", hostname |-> hostname, options |-> opts]

HttpGatewayRouteMatch_method(method, opts) ==
    [class |-> "HttpGatewayRouteMethodMatch", method |-> method, options |-> opts]

HttpGatewayRouteMatch_path(pathMatch, opts) ==
    [class |-> "HttpGatewayRoutePathMatch", pathMatch |-> pathMatch, options |-> opts]

HttpGatewayRouteMatch_queryParameters(queryParameters, opts) ==
    [class |-> "HttpGatewayRouteQueryParameterMatch",
     queryParameter |-> queryParameters, options |-> opts]

\* this.options?.headers?.map(header => header.bind(scope).httpRouteHeader)
BindHeaders(headers, scope) ==
    IF IsSome(headers)
    THEN Some([i \in 1..Len(Get(headers)) |->
                HttpHeaderMatch_bind(Get(headers)[i], scope).httpRouteHeader])
    ELSE None

\* this.options?.hostname?.bind(scope).hostnameMatch
BindHostname(hostname, scope) ==
    IF IsSome(hostname)
    THEN Some(GatewayRouteHostnameImpl_bind(Get(hostname), scope).hostnameMatch)
    ELSE None

\* this.options?.queryParameters?.map(qp => qp.bind(scope).queryParameter)
BindQueryParameters(queryParameters, scope) ==
    IF IsSome(queryParameters)
    THEN Some([i \in 1..Len(Get(queryParameters)) |->
                QueryParameterMatchImpl_bind(Get(queryParameters)[i], scope).queryParameter])
    ELSE None

\* this.options?.prefixOrPath?.bind(scope).requestMatch.path
BindPrefixOrPathPath(prefixOrPath, scope) ==
    IF IsSome(prefixOrPath)
    THEN HttpGatewayRoutePathOrPrefixMatch_bind(Get(prefixOrPath), scope).requestMatch.path
    ELSE None

\* this.options?.prefixOrPath?.bind(scope).requestMatch.prefix
BindPrefixOrPathPrefix(prefixOrPath, scope) ==
    IF IsSome(prefixOrPath)
    THEN HttpGatewayRoutePathOrPrefixMatch_bind(Get(prefixOrPath), scope).requestMatch.prefix
    ELSE None

HttpGatewayRoutePrefixMatch_bind(self, scope) ==
    [requestMatch |->
        [prefix |-> Some(self.prefix),
         path |-> None,
         headers |-> BindHeaders(Opt(self.options, "headers"), scope),
         hostname |-> BindHostname(Opt(self.options, "hostname"), scope),
         method |-> Opt(self.options, "method"),
         queryParameters |->
             BindQueryParameters(Opt(self.options, "queryParameters"), scope)]]

HttpGatewayRouteHeaderMatch_bind(self, scope) ==
    [requestMatch |->
        [headers |-> BindHeaders(Some(self.header), scope),
         hostname |-> BindHostname(Opt(self.options, "hostname"), scope),
         method |-> Opt(self.options, "method"),
         queryParameters |->
             BindQueryParameters(Opt(self.options, "queryParameters"), scope),
         path |-> BindPrefixOrPathPath(Opt(self.options, "prefixOrPath"), scope),
         prefix |-> BindPrefixOrPathPrefix(Opt(self.options, "prefixOrPath"), scope)]]

HttpGatewayRouteHostnameMatch_bind(self, scope) ==
    [requestMatch |->
        [hostname |-> BindHostname(Some(self.hostname), scope),
         headers |-> BindHeaders(Opt(self.options, "headers"), scope),
         method |-> Opt(self.options, "method"),
         queryParameters |->
             BindQueryParameters(Opt(self.options, "queryParameters"), scope),
         path |-> BindPrefixOrPathPath(Opt(self.options, "prefixOrPath"), scope),
         prefix |-> BindPrefixOrPathPrefix(Opt(self.options, "prefixOrPath"), scope)]]

\* variant: the method entry point leaves the headers option out
HttpGatewayRouteMethodMatch_bind_DropsHeaders(self, scope) ==
    [requestMatch |->
        [method |-> Some(self.method),
         hostname |-> BindHostname(Opt(self.options, "hostname"), scope),
         headers |-> None,
         queryParameters |->
             BindQueryParameters(Opt(self.options, "queryParameters"), scope),
         path |-> BindPrefixOrPathPath(Opt(self.options, "prefixOrPath"), scope),
         prefix |-> BindPrefixOrPathPrefix(Opt(self.options, "prefixOrPath"), scope)]]

HttpGatewayRouteMethodMatch_bind(self, scope) ==
    [requestMatch |->
        [method |-> Some(self.method),
         hostname |-> BindHostname(Opt(self.options, "hostname"), scope),
         headers |-> BindHeaders(Opt(self.options, "headers"), scope),
         queryParameters |->
             BindQueryParameters(Opt(self.options, "queryParameters"), scope),
         path |-> BindPrefixOrPathPath(Opt(self.options, "prefixOrPath"), scope),
         prefix |-> BindPrefixOrPathPrefix(Opt(self.options, "prefixOrPath"), scope)]]

\* variant: the path entry point also emits the default prefix '/'
HttpGatewayRoutePathMatch_bind_WithDefaultPrefix(self, scope) ==
    [requestMatch |->
        [path |-> Some(HttpPathMatchImpl_bind(self.pathMatch, scope).pathMatch),
         prefix |-> Some(<<"/">>),
         hostname |-> BindHostname(Opt(self.options, "hostname"), scope),
         headers |-> BindHeaders(Opt(self.options, "headers"), scope),
         method |-> Opt(self.options, "method"),
         queryParameters |->
             BindQueryParameters(Opt(self.options, "queryParameters"), scope)]]

HttpGatewayRoutePathMatch_bind(self, scope) ==
    [requestMatch |->
        [path |-> Some(HttpPathMatchImpl_bind(self.pathMatch, scope).pathMatch),
         prefix |-> None,
         hostname |-> BindHostname(Opt(self.options, "hostname"), scope),
         headers |-> BindHeaders(Opt(self.options, "headers"), scope),
         method |-> Opt(self.options, "method"),
         queryParameters |->
             BindQueryParameters(Opt(self.options, "queryParameters"), scope)]]

HttpGatewayRouteQueryParameterMatch_bind(self, scope) ==
    [requestMatch |->
        [queryParameters |-> BindQueryParameters(Some(self.queryParameter), scope),
         hostname |-> BindHostname(Opt(self.options, "hostname"), scope),
         headers |-> BindHeaders(Opt(self.options, "headers"), scope),
         method |-> Opt(self.options, "method"),
         path |-> BindPrefixOrPathPath(Opt(self.options, "prefixOrPath"), scope),
         prefix |-> BindPrefixOrPathPrefix(Opt(self.options, "prefixOrPath"), scope)]]

\* HttpGatewayRouteMatch is exported and abstract: a caller's own subclass, whose
\* bind returns the requestMatch it holds
HttpGatewayRouteMatchSubclass(requestMatch) ==
    [class |-> "HttpGatewayRouteMatchSubclass", requestMatch |-> requestMatch]

HttpGatewayRouteMatchSubclass_bind(self, scope) ==
    [requestMatch |-> self.requestMatch]

\* the abstract bind, dispatched on the implementing class
HttpGatewayRouteMatch_bind(self, scope) ==
    CASE self.class = "HttpGatewayRoutePrefixMatch" ->
            HttpGatewayRoutePrefixMatch_bind(self, scope)
      [] self.class = "HttpGatewayRouteHeaderMatch" ->
            HttpGatewayRouteHeaderMatch_bind(self, scope)
      [] self.class = "HttpGatewayRouteHostnameMatch" ->
            HttpGatewayRouteHostnameMatch_bind(self, scope)
      [] self.class = "HttpGatewayRouteMethodMatch" ->
            HttpGatewayRouteMethodMatch_bind(self, scope)
      [] self.class = "HttpGatewayRoutePathMatch" ->
            HttpGatewayRoutePathMatch_bind(self, scope)
      [] self.class = "HttpGatewayRouteQueryParameterMatch" ->
            HttpGatewayRouteQueryParameterMatch_bind(self, scope)
      [] self.class = "HttpGatewayRouteMatchSubclass" ->
            HttpGatewayRouteMatchSubclass_bind(self, scope)

(***************************************************************************)
(* The match values drawn as inputs.                                       *)
(***************************************************************************)
HeaderLists == {<<>>} \cup {<<h>> : h \in HttpHeaderMatches}
QueryParameterLists == {<<>>} \cup {<<q>> : q \in QueryParameterMatches}
OptionHostnames == Optional({GatewayRouteHostname_matchingExactly("example.com")})
OptionMethods == Optional({"GET"})
OptionHeaders == Optional(HeaderLists \ {<<>>})
OptionQueryParameters == Optional(QueryParameterLists \ {<<>>})

HttpGatewayRoutePrefixMatchOptions ==
    [headers : OptionHeaders, hostname : OptionHostnames,
     method : OptionMethods, queryParameters : OptionQueryParameters]

HttpGatewayRouteHeaderMatchOptions ==
    [hostname : OptionHostnames, method : OptionMethods,
     queryParameters : OptionQueryParameters,
     prefixOrPath : Optional(HttpGatewayRoutePathOrPrefixMatches)]

HttpGatewayRouteHostnameMatchOptions ==
    [headers : OptionHeaders, method : OptionMethods,
     queryParameters : OptionQueryParameters,
     prefixOrPath : Optional(HttpGatewayRoutePathOrPrefixMatches)]

HttpGatewayRouteMethodMatchOptions ==
    [headers : OptionHeaders, hostname : OptionHostnames,
     queryParameters : OptionQueryParameters,
     prefixOrPath : Optional(HttpGatewayRoutePathOrPrefixMatches)]

HttpGatewayRoutePathMatchOptions ==
    [headers : OptionHeaders, method : OptionMethods,
     hostname : OptionHostnames, queryParameters : OptionQueryParameters]

HttpGatewayRouteQueryParameterMatchOptions ==
    [headers : OptionHeaders, hostname : OptionHostnames,
     method : OptionMethods,
     prefixOrPath : Optional(HttpGatewayRoutePathOrPrefixMatches)]

HttpGatewayRouteMatches ==
    {HttpGatewayRouteMatch_prefix(p, o) :
        p \in Prefixes, o \in Optional(HttpGatewayRoutePrefixMatchOptions)}
    \cup {HttpGatewayRouteMatch_header(h, o) :
        h \in HeaderLists, o \in Optional(HttpGatewayRouteHeaderMatchOptions)}
    \cup {HttpGatewayRouteMatch_hostname(h, Some(o)) :
        h \in GatewayRouteHostnames, o \in HttpGatewayRouteHostnameMatchOptions}
    \cup {HttpGatewayRouteMatch_method(m, Some(o)) :
        m \in Method, o \in HttpGatewayRouteMethodMatchOptions}
    \cup {HttpGatewayRouteMatch_path(pm, Some(o)) :
        pm \in HttpPathMatches, o \in HttpGatewayRoutePathMatchOptions}
    \cup {HttpGatewayRouteMatch_queryParameters(q, Some(o)) :
        q \in QueryParameterLists, o \in HttpGatewayRouteQueryParameterMatchOptions}

(***************************************************************************)
(* GrpcMetadataMatch and GrpcGatewayRouteMatch.                            *)
(***************************************************************************)
EmptyMetadataMatchProperty ==
    [exact |-> None, prefix |-> None, suffix |-> None, regex |-> None, range |-> None]

MetadataMatchImpl(metadataName, invert, matchProperty) ==
    [metadataName |-> metadataName, invert |-> invert, matchProperty |-> matchProperty]

GrpcMetadataMatch_valueIs(metadataName, metadataValue) ==
    MetadataMatchImpl(metadataName, FALSE,
        [EmptyMetadataMatchProperty EXCEPT !.exact = Some(metadataValue)])

GrpcMetadataMatch_valueIsNot(metadataName, metadataValue) ==
    MetadataMatchImpl(metadataName, TRUE,
        [EmptyMetadataMatchProperty EXCEPT !.exact = Some(metadataValue)])

GrpcMetadataMatch_valueStartsWith(metadataName, prefix) ==
    MetadataMatchImpl(metadataName, FALSE,
        [EmptyMetadataMatchProperty EXCEPT !.prefix = Some(prefix)])

GrpcMetadataMatch_valueDoesNotStartWith(metadataName, prefix) ==
    MetadataMatchImpl(metadataName, TRUE,
        [EmptyMetadataMatchProperty EXCEPT !.prefix = Some(prefix)])

GrpcMetadataMatch_valueEndsWith(metadataName, suffix) ==
    MetadataMatchImpl(metadataName, FALSE,
        [EmptyMetadataMatchProperty EXCEPT !.suffix = Some(suffix)])

GrpcMetadataMatch_valueDoesNotEndWith(metadataName, suffix) ==
    MetadataMatchImpl(metadataName, TRUE,
        [EmptyMetadataMatchProperty EXCEPT !.suffix = Some(suffix)])

GrpcMetadataMatch_valueMatchesRegex(metadataName, regex) ==
    MetadataMatchImpl(metadataName, FALSE,
        [EmptyMetadataMatchProperty EXCEPT !.regex = Some(regex)])

GrpcMetadataMatch_valueDoesNotMatchRegex(metadataName, regex) ==
    MetadataMatchImpl(metadataName, TRUE,
        [EmptyMetadataMatchProperty EXCEPT !.regex = Some(regex)])

GrpcMetadataMatch_valuesIsInRange(metadataName, start, end) ==
    MetadataMatchImpl(metadataName, FALSE,
        [EmptyMetadataMatchProperty EXCEPT !.range = Some([start |-> start, end |-> end])])

\* variant: the negated range constructor built like the positive one
GrpcMetadataMatch_valuesIsNotInRange_NotInverted(metadataName, start, end) ==
    MetadataMatchImpl(metadataName, FALSE,
        [EmptyMetadataMatchProperty EXCEPT !.range = Some([start |-> start, end |-> end])])

GrpcMetadataMatch_valuesIsNotInRange(metadataName, start, end) ==
    MetadataMatchImpl(metadataName, TRUE,
        [EmptyMetadataMatchProperty EXCEPT !.range = Some([start |-> start, end |-> end])])

MetadataMatchImpl_bind(self, scope) ==
    [metadataMatch |-> [name |-> self.metadataName,
                        invert |-> self.invert,
                        match |-> self.matchProperty]]

GrpcGatewayRouteMatch_hostname(hostname, opts) ==
    [class |-> "GrpcGatewayRouteHostnameMatchImpl", hostname |-> hostname, options |-> opts]

GrpcGatewayRouteMatch_metadata(metadata, opts) ==
    [class |-> "GrpcGatewayRouteMetadataMatchImpl", metadata |-> metadata, options |-> opts]

GrpcGatewayRouteMatch_serviceName(serviceName, opts) ==
    [class |-> "GrpcGatewayRouteServicenameMatchImpl",
     serviceName |-> serviceName, options |-> opts]

\* variant: the bound list is in the reverse of the given order
BindMetadata_Reversed(metadata, scope) ==
    IF IsSome(metadata)
    THEN Some([i \in 1..Len(Get(metadata)) |->
                [name |-> Get(metadata)[Len(Get(metadata)) + 1 - i].metadataName,
                 invert |-> Get(metadata)[Len(Get(metadata)) + 1 - i].invert,
                 match |-> Get(metadata)[Len(Get(metadata)) + 1 - i].matchProperty]])
    ELSE None

\* this.options?.metadata?.map(metadata => metadata.bind(scope).metadataMatch)
BindMetadata(metadata, scope) ==
    IF IsSome(metadata)
    THEN Some([i \in 1..Len(Get(metadata)) |->
                MetadataMatchImpl_bind(Get(metadata)[i], scope).metadataMatch])
    ELSE None

GrpcGatewayRouteHostnameMatchImpl_bind(self, scope) ==
    [requestMatch |->
        [hostname |-> BindHostname(Some(self.hostname), scope),
         metadata |-> BindMetadata(Opt(self.options, "metadata"), scope),
         serviceName |-> Opt(self.options, "serviceName")]]

\* variant: an empty metadata list is emitted as undefined
GrpcGatewayRouteMetadataMatchImpl_bind_EmptyAsAbsent(self, scope) ==
    [requestMatch |->
        [metadata |-> IF self.metadata = <<>> THEN None
                      ELSE BindMetadata(Some(self.metadata), scope),
         hostname |-> BindHostname(Opt(self.options, "hostname"), scope),
         serviceName |-> Opt(self.options, "serviceName")]]

GrpcGatewayRouteMetadataMatchImpl_bind(self, scope) ==
    [requestMatch |->
        [metadata |-> BindMetadata(Some(self.metadata), scope),
         hostname |-> BindHostname(Opt(self.options, "hostname"), scope),
         serviceName |-> Opt(self.options, "serviceName")]]

\* variant: the serviceName entry point leaves the hostname option out
GrpcGatewayRouteServicenameMatchImpl_bind_DropsHostname(self, scope) ==
    [requestMatch |->
        [serviceName |-> Some(self.serviceName),
         hostname |-> None,
         metadata |-> BindMetadata(Opt(self.options, "metadata"), scope)]]

GrpcGatewayRouteServicenameMatchImpl_bind(self, scope) ==
    [requestMatch |->
        [serviceName |-> Some(self.serviceName),
         hostname |-> BindHostname(Opt(self.options, "hostname"), scope),
         metadata |-> BindMetadata(Opt(self.options, "metadata"), scope)]]

\* GrpcGatewayRouteMatch is exported and abstract: a caller's own subclass
GrpcGatewayRouteMatchSubclass(requestMatch) ==
    [class |-> "GrpcGatewayRouteMatchSubclass", requestMatch |-> requestMatch]

GrpcGatewayRouteMatchSubclass_bind(self, scope) ==
    [requestMatch |-> self.requestMatch]

GrpcGatewayRouteMatch_bind(self, scope) ==
    CASE self.class = "GrpcGatewayRouteHostnameMatchImpl" ->
            GrpcGatewayRouteHostnameMatchImpl_bind(self, scope)
      [] self.class = "GrpcGatewayRouteMetadataMatchImpl" ->
            GrpcGatewayRouteMetadataMatchImpl_bind(self, scope)
      [] self.class = "GrpcGatewayRouteServicenameMatchImpl" ->
            GrpcGatewayRouteServicenameMatchImpl_bind(self, scope)
      [] self.class = "GrpcGatewayRouteMatchSubclass" ->
            GrpcGatewayRouteMatchSubclass_bind(self, scope)

GrpcMetadataMatches ==
    {GrpcMetadataMatch_valueIs("k", "v"), GrpcMetadataMatch_valueIsNot("k", "v"),
     GrpcMetadataMatch_valueStartsWith("k", "v"),
     GrpcMetadataMatch_valueDoesNotStartWith("k", "v"),
     GrpcMetadataMatch_valueEndsWith("k", "v"),
     GrpcMetadataMatch_valueDoesNotEndWith("k", "v"),
     GrpcMetadataMatch_valueMatchesRegex("k", "v"),
     GrpcMetadataMatch_valueDoesNotMatchRegex("k", "v"),
     GrpcMetadataMatch_valuesIsInRange("k", 1, 5),
     GrpcMetadataMatch_valuesIsNotInRange("k", 1, 5)}
\* lists of up to MaxMetadataLen of three of them, and each one alone
ListedMetadataMatches ==
    {GrpcMetadataMatch_valueIs("k", "v"), GrpcMetadataMatch_valueIsNot("k", "v"),
     GrpcMetadataMatch_valuesIsInRange("k", 1, 5)}
MetadataLists ==
    SeqsUpTo(ListedMetadataMatches, MaxMetadataLen)
    \cup {<<m>> : m \in GrpcMetadataMatches}
ServiceNames == {"billing.v1"}

GrpcGatewayRouteMatches ==
    {GrpcGatewayRouteMatch_hostname(h, o) :
        h \in GatewayRouteHostnames,
        o \in Optional([metadata : Optional(MetadataLists),
                        serviceName : Optional(ServiceNames)])}
    \cup {GrpcGatewayRouteMatch_metadata(m, o) :
        m \in MetadataLists,
        o \in Optional([hostname : OptionHostnames,
                        serviceName : Optional(ServiceNames)])}
    \cup {GrpcGatewayRouteMatch_serviceName(n, o) :
        n \in ServiceNames,
        o \in Optional([hostname : OptionHostnames,
                        metadata : Optional(MetadataLists)])}

(***************************************************************************)
(* HttpGatewayRouteHostnameOtherRewrite: the 'other' option.               *)
(***************************************************************************)
EmptyHttpRewriteConfig == [hostname |-> None, path |-> None, prefix |-> None]

HttpGatewayRouteHostnameOtherRewrite_path(exact) ==
    [class |-> "HttpGatewayRoutePathRewriteImpl", exact |-> exact]

HttpGatewayRouteHostnameOtherRewrite_defaultPrefix(isDefault) ==
    [class |-> "HttpGatewayRoutePrefixRewriteImpl",
     prefixRewrite |-> [defaultPrefix |-> Some(isDefault), value |-> None]]

HttpGatewayRouteHostnameOtherRewrite_customPrefix(value) ==
    [class |-> "HttpGatewayRoutePrefixRewriteImpl",
     prefixRewrite |-> [defaultPrefix |-> None, value |-> Some(value)]]

HttpGatewayRoutePathRewriteImpl_bind(self, scope) ==
    [EmptyHttpRewriteConfig EXCEPT !.path = Some([exact |-> self.exact])]

HttpGatewayRoutePrefixRewriteImpl_bind(self, scope) ==
    [EmptyHttpRewriteConfig EXCEPT !.prefix = Some(self.prefixRewrite)]

HttpGatewayRouteHostnameOtherRewrite_bind(self, scope) ==
    IF self.class = "HttpGatewayRoutePathRewriteImpl"
    THEN HttpGatewayRoutePathRewriteImpl_bind(self, scope)
    ELSE HttpGatewayRoutePrefixRewriteImpl_bind(self, scope)

(***************************************************************************)
(* HttpGatewayRouteRewrite and GrpcGatewayRouteRewrite.                    *)
(***************************************************************************)
HttpGatewayRouteRewrite_defaultHostname(isDefault, opts) ==
    [class |-> "HttpGatewayRouteHostnameRewrite",
     defaultTarget |-> isDefault, options |-> opts]

HttpGatewayRouteRewrite_path(exact, opts) ==
    [class |-> "HttpGatewayRoutePathRewrite", exact |-> exact, options |-> opts]

HttpGatewayRouteRewrite_defaultPrefix(isDefault, opts) ==
    [class |-> "HttpGatewayRoutePrefixRewrite",
     prefixRewrite |-> [defaultPrefix |-> Some(isDefault), value |-> None],
     options |-> opts]

HttpGatewayRouteRewrite_customPrefix(value, opts) ==
    [class |-> "HttpGatewayRoutePrefixRewrite",
     prefixRewrite |-> [defaultPrefix |-> None, value |-> Some(value)],
     options |-> opts]

\* variant: with an 'other' rewrite that has no prefix, the default prefix is added
HttpGatewayRouteHostnameRewrite_bind_AddsDefaultPrefix(self, scope) ==
    LET rewrite == Opt(self.options, "other")
    IN  [hostname |-> Some([defaultTargetHostname |-> Some(self.defaultTarget)]),
         prefix |-> IF TruthyObject(rewrite)
                    THEN IF IsSome(HttpGatewayRouteHostnameOtherRewrite_bind(
                                        Get(rewrite), scope).prefix)
                         THEN HttpGatewayRouteHostnameOtherRewrite_bind(
                                        Get(rewrite), scope).prefix
                         ELSE Some([defaultPrefix |-> Some(Default_ENABLED),
                                    value |-> None])
                    ELSE None,
         path |-> IF TruthyObject(rewrite)
                  THEN HttpGatewayRouteHostnameOtherRewrite_bind(Get(rewrite), scope).path
                  ELSE None]

HttpGatewayRouteHostnameRewrite_bind(self, scope) ==
    LET rewrite == Opt(self.options, "other")
    IN  [hostname |-> Some([defaultTargetHostname |-> Some(self.defaultTarget)]),
         prefix |-> IF TruthyObject(rewrite)
                    THEN HttpGatewayRouteHostnameOtherRewrite_bind(Get(rewrite), scope).prefix
                    ELSE None,
         path |-> IF TruthyObject(rewrite)
                  THEN HttpGatewayRouteHostnameOtherRewrite_bind(Get(rewrite), scope).path
                  ELSE None]

\* variant: the path entry point emits no hostname
HttpGatewayRoutePathRewrite_bind_NoHostname(self, scope) ==
    [path |-> Some([exact |-> self.exact]),
     prefix |-> None,
     hostname |-> None]

HttpGatewayRoutePathRewrite_bind(self, scope) ==
    [path |-> Some([exact |-> self.exact]),
     prefix |-> None,
     hostname |-> Some([defaultTargetHostname |->
                            Opt(self.options, "defaultTargetHostname")])]

\* variant: a prefix rewrite always emitted as the default prefix, enabled
HttpGatewayRoutePrefixRewrite_bind_DefaultPrefix(self, scope) ==
    [prefix |-> Some([defaultPrefix |-> Some(Default_ENABLED), value |-> None]),
     path |-> None,
     hostname |-> Some([defaultTargetHostname |->
                            Opt(self.options, "defaultTargetHostname")])]

HttpGatewayRoutePrefixRewrite_bind(self, scope) ==
    [prefix |-> Some(self.prefixRewrite),
     path |-> None,
     hostname |-> Some([defaultTargetHostname |->
                            Opt(self.options, "defaultTargetHostname")])]

\* HttpGatewayRouteRewrite is exported and abstract: a caller's own subclass,
\* whose bind returns the rewrite config it holds
HttpGatewayRouteRewriteSubclass(config) ==
    [class |-> "HttpGatewayRouteRewriteSubclass", config |-> config]

HttpGatewayRouteRewriteSubclass_bind(self, scope) ==
    self.config

HttpGatewayRouteRewrite_bind(self, scope) ==
    CASE self.class = "HttpGatewayRouteHostnameRewrite" ->
            HttpGatewayRouteHostnameRewrite_bind(self, scope)
      [] self.class = "HttpGatewayRoutePathRewrite" ->
            HttpGatewayRoutePathRewrite_bind(self, scope)
      [] self.class = "HttpGatewayRoutePrefixRewrite" ->
            HttpGatewayRoutePrefixRewrite_bind(self, scope)
      [] self.class = "HttpGatewayRouteRewriteSubclass" ->
            HttpGatewayRouteRewriteSubclass_bind(self, scope)

GrpcGatewayRouteRewrite_defaultHostname(isDefault) ==
    [class |-> "GrpcGatewayRouteRewriteImpl", defaultTarget |-> isDefault]

GrpcGatewayRouteRewriteImpl_bind(self, scope) ==
    [hostname |-> Some([defaultTargetHostname |-> Some(self.defaultTarget)])]

RewritePaths == {"/check"}
RewritePrefixValues == {"/v2"}
\* HttpGatewayRoutePrefixRewriteOptions.defaultTargetHostname is typed string
TargetHostnameStrings == Default \cup {"other"}

HttpGatewayRouteHostnameOtherRewrites ==
    {HttpGatewayRouteHostnameOtherRewrite_path(e) : e \in RewritePaths}
    \cup {HttpGatewayRouteHostnameOtherRewrite_defaultPrefix(d) : d \in Default}
    \cup {HttpGatewayRouteHostnameOtherRewrite_customPrefix(v) : v \in RewritePrefixValues}

HttpGatewayRoutePrefixRewriteOptions ==
    Optional([defaultTargetHostname : Optional(TargetHostnameStrings)])

HttpGatewayRouteRewrites ==
    {HttpGatewayRouteRewrite_defaultHostname(d, o) :
        d \in Default,
        o \in Optional([other : Optional(HttpGatewayRouteHostnameOtherRewrites)])}
    \cup {HttpGatewayRouteRewrite_path(e, o) :
        e \in RewritePaths, o \in HttpGatewayRoutePrefixRewriteOptions}
    \cup {HttpGatewayRouteRewrite_defaultPrefix(d, o) :
        d \in Default, o \in HttpGatewayRoutePrefixRewriteOptions}
    \cup {HttpGatewayRouteRewrite_customPrefix(v, o) :
        v \in RewritePrefixValues, o \in HttpGatewayRoutePrefixRewriteOptions}

GrpcGatewayRouteRewrites ==
    {GrpcGatewayRouteRewrite_defaultHostname(d) : d \in Default}

(***************************************************************************)
(* GatewayRouteSpec: HttpGatewayRouteSpec and GrpcGatewayRouteSpec.        *)
(***************************************************************************)
HttpGatewayRouteSpec(opts, protocol) ==
    [class |-> "HttpGatewayRouteSpec",
     routeTarget |-> opts.routeTarget,
     routeType |-> protocol,
     match |-> opts.match,
     rewrite |-> opts.rewrite]

\* the constructor assigns match and routeTarget only: rewrite stays undefined
GrpcGatewayRouteSpec(opts) ==
    [class |-> "GrpcGatewayRouteSpec",
     match |-> opts.match,
     routeTarget |-> opts.routeTarget,
     rewrite |-> None]

\* the outcome of a call: an Error thrown, or a value returned
Throw(message, got) ==
    [error |-> Some([message |-> message, got |-> got]), config |-> None]
Return(config) == [error |-> None, config |-> Some(config)]

InvalidPrefixFormat == "Prefix Path must start with '/', got: "
PrefixRewriteRequiresPrefixMatch == "HTTP Gateway Route Prefix Match must be set."
PathRewriteConflictsWithPrefixMatch ==
    "HTTP Gateway Route Prefix Match and Path Rewrite both cannot be set."

\* variant: the default is taken whenever the bound match has no prefix
PrefixPath_DefaultWhenAbsent(self, scope) ==
    IF TruthyObject(self.match)
       /\ IsSome(HttpGatewayRouteMatch_bind(Get(self.match), scope).requestMatch.prefix)
    THEN HttpGatewayRouteMatch_bind(Get(self.match), scope).requestMatch.prefix
    ELSE Some(<<"/">>)

\* const prefixPath = this.match ? this.match.bind(scope).requestMatch.prefix : '/'
PrefixPath(self, scope) ==
    IF TruthyObject(self.match)
    THEN HttpGatewayRouteMatch_bind(Get(self.match), scope).requestMatch.prefix
    ELSE Some(<<"/">>)

\* prefixPath && prefixPath[0] != '/'
\* variant: the first character is tested on every string, the empty one included
PrefixFormatFails_RejectsEmpty(prefixPath) ==
    IsSome(prefixPath) /\ (Get(prefixPath) = <<>> \/ Get(prefixPath)[1] # "/")

PrefixFormatFails(prefixPath) ==
    TruthyString(prefixPath) /\ Get(prefixPath)[1] # "/"

\* this.match?.bind(scope).requestMatch.<field>
MatchField(self, scope, field) ==
    IF IsSome(self.match)
    THEN HttpGatewayRouteMatch_bind(Get(self.match), scope).requestMatch[field]
    ELSE None

\* this.rewrite?.bind(scope).<field>
RewriteField(self, scope, field) ==
    IF IsSome(self.rewrite)
    THEN HttpGatewayRouteRewrite_bind(Get(self.rewrite), scope)[field]
    ELSE None

\* variant: the prefix-rewrite check reads the path rewrite of the next check
PrefixRewriteCheckFails_ReadsPath(self, scope) ==
    /\ TruthyObject(RewriteField(self, scope, "path"))
    /\ ~TruthyString(MatchField(self, scope, "prefix"))

\* this.rewrite?.bind(scope).prefix && !this.match?.bind(scope).requestMatch.prefix
PrefixRewriteCheckFails(self, scope) ==
    /\ TruthyObject(RewriteField(self, scope, "prefix"))
    /\ ~TruthyString(MatchField(self, scope, "prefix"))

\* variant: the path-rewrite check with its match condition negated
PathRewriteCheckFails_Negated(self, scope) ==
    /\ TruthyObject(RewriteField(self, scope, "path"))
    /\ ~TruthyString(MatchField(self, scope, "prefix"))

\* this.rewrite?.bind(scope).path && this.match?.bind(scope).requestMatch.prefix
PathRewriteCheckFails(self, scope) ==
    /\ TruthyObject(RewriteField(self, scope, "path"))
    /\ TruthyString(MatchField(self, scope, "prefix"))

\* variant: action.rewrite is emitted, with empty fields, when no rewrite is given
HttpConfig_RewriteAlwaysEmitted(self, scope, prefixPath) ==
    [match |->
        [prefix |-> prefixPath,
         headers |-> MatchField(self, scope, "headers"),
         hostname |-> MatchField(self, scope, "hostname"),
         method |-> MatchField(self, scope, "method"),
         path |-> MatchField(self, scope, "path"),
         queryParameters |-> MatchField(self, scope, "queryParameters")],
     action |->
        [target |-> [virtualService |->
            [virtualServiceName |-> self.routeTarget.virtualServiceName]],
         rewrite |->
            Some([hostname |-> RewriteField(self, scope, "hostname"),
                  path |-> RewriteField(self, scope, "path"),
                  prefix |-> RewriteField(self, scope, "prefix")])]]

\* const httpConfig: CfnGatewayRoute.HttpGatewayRouteProperty = { ... }
HttpConfig(self, scope, prefixPath) ==
    [match |->
        [prefix |-> prefixPath,
         headers |-> MatchField(self, scope, "headers"),
         hostname |-> MatchField(self, scope, "hostname"),
         method |-> MatchField(self, scope, "method"),
         path |-> MatchField(self, scope, "path"),
         queryParameters |-> MatchField(self, scope, "queryParameters")],
     action |->
        [target |-> [virtualService |->
            [virtualServiceName |-> self.routeTarget.virtualServiceName]],
         rewrite |->
            IF TruthyObject(self.rewrite)
            THEN Some([hostname |-> RewriteField(self, scope, "hostname"),
                       path |-> RewriteField(self, scope, "path"),
                       prefix |-> RewriteField(self, scope, "prefix")])
            ELSE None]]

\* variant: httpSpecConfig filled whatever the route type
HttpSpecConfig_AlwaysHttp(routeType, httpConfig) ==
    [httpSpecConfig |-> Some(httpConfig),
     http2SpecConfig |-> IF routeType = Protocol_HTTP2 THEN Some(httpConfig) ELSE None,
     grpcSpecConfig |-> None]

\* return { httpSpecConfig: ..., http2SpecConfig: ... }
HttpSpecConfig(routeType, httpConfig) ==
    [httpSpecConfig |-> IF routeType = Protocol_HTTP THEN Some(httpConfig) ELSE None,
     http2SpecConfig |-> IF routeType = Protocol_HTTP2 THEN Some(httpConfig) ELSE None,
     grpcSpecConfig |-> None]

\* variant: the path-rewrite conflict is reported beside the assembled config
HttpGatewayRouteSpec_bind_CollectsErrors(self, scope) ==
    LET prefixPath == PrefixPath(self, scope)
        httpConfig == HttpSpecConfig(self.routeType, HttpConfig(self, scope, prefixPath))
    IN  IF PrefixFormatFails(prefixPath)
        THEN Throw(InvalidPrefixFormat, prefixPath)
        ELSE IF PrefixRewriteCheckFails(self, scope)
        THEN Throw(PrefixRewriteRequiresPrefixMatch, None)
        ELSE IF PathRewriteCheckFails(self, scope)
        THEN [error |-> Some([message |-> PathRewriteConflictsWithPrefixMatch,
                              got |-> None]),
              config |-> Some(httpConfig)]
        ELSE Return(httpConfig)

HttpGatewayRouteSpec_bind(self, scope) ==
    LET prefixPath == PrefixPath(self, scope)
    IN  IF PrefixFormatFails(prefixPath)
        THEN Throw(InvalidPrefixFormat, prefixPath)
        ELSE IF PrefixRewriteCheckFails(self, scope)
        THEN Throw(PrefixRewriteRequiresPrefixMatch, None)
        ELSE IF PathRewriteCheckFails(self, scope)
        THEN Throw(PathRewriteConflictsWithPrefixMatch, None)
        ELSE Return(HttpSpecConfig(self.routeType, HttpConfig(self, scope, prefixPath)))

\* variant: an empty metadata list is rejected while the match is bound
GrpcGatewayRouteSpec_bind_RejectsEmptyMetadata(self, scope) ==
    IF GrpcGatewayRouteMatch_bind(self.match, scope).requestMatch.metadata = Some(<<>>)
    THEN Throw("metadata must not be empty", None)
    ELSE Return(
        [httpSpecConfig |-> None,
         http2SpecConfig |-> None,
         grpcSpecConfig |-> Some(
            [action |->
                [target |-> [virtualService |->
                    [virtualServiceName |-> self.routeTarget.virtualServiceName]],
                 rewrite |-> None],
             match |-> GrpcGatewayRouteMatch_bind(self.match, scope).requestMatch])])

\* variant: the target's name is resolved in the scope of the call
GrpcGatewayRouteSpec_bind_NameInScope(self, scope) ==
    Return(
        [httpSpecConfig |-> None,
         http2SpecConfig |-> None,
         grpcSpecConfig |-> Some(
            [action |->
                [target |-> [virtualService |-> [virtualServiceName |-> scope]],
                 rewrite |-> None],
             match |-> GrpcGatewayRouteMatch_bind(self.match, scope).requestMatch])])

GrpcGatewayRouteSpec_bind(self, scope) ==
    Return(
        [httpSpecConfig |-> None,
         http2SpecConfig |-> None,
         grpcSpecConfig |-> Some(
            [action |->
                [target |-> [virtualService |->
                    [virtualServiceName |-> self.routeTarget.virtualServiceName]],
                 rewrite |->
                    IF TruthyObject(self.rewrite)
                    THEN Some([hostname |->
                        GrpcGatewayRouteRewriteImpl_bind(Get(self.rewrite), scope).hostname])
                    ELSE None],
             match |-> GrpcGatewayRouteMatch_bind(self.match, scope).requestMatch])])

\* the abstract bind, dispatched on the implementing class
GatewayRouteSpec_bind(self, scope) ==
    IF self.class = "HttpGatewayRouteSpec"
    THEN HttpGatewayRouteSpec_bind(self, scope)
    ELSE GrpcGatewayRouteSpec_bind(self, scope)

HttpGatewayRouteSpecOptions ==
    [match : Optional(HttpGatewayRouteMatches),
     routeTarget : VirtualServices,
     rewrite : Optional(HttpGatewayRouteRewrites)]

GrpcGatewayRouteSpecOptions ==
    [match : GrpcGatewayRouteMatches,
     routeTarget : VirtualServices,
     rewrite : Optional(GrpcGatewayRouteRewrites)]

(***************************************************************************)
(* The state machine: a caller creates one GatewayRouteSpec through one of *)
(* the three factories and binds it, any number of times, in some scope.   *)
(*   factory  the factory called: "http", "http2" or "grpc"                *)
(*   options  the options handed to the factory (undefined before)         *)
(*   spec     the GatewayRouteSpec object created                          *)
(*   result   the outcome of the latest bind call                          *)
(*   previous the outcome of the bind call before the latest one           *)
(*   calls    two callers, each with a spec of its own and a bind call in  *)
(*            progress: used where bind calls interleave, idle elsewhere   *)
(*   scopeTree  the children of each scope construct                       *)
(*   trust    the TlsValidationTrust created, if any                       *)
(*   trustConfig  what the last bind of the trust threw or returned        *)
(***************************************************************************)
Callers == {"first", "second"}

\* a caller that has created no spec and called nothing
IdleCall ==
    [spec |-> None, scope |-> None, pc |-> "idle", prefixPath |-> None, result |-> None]

Init ==
    /\ factory = None
    /\ options = None
    /\ spec = None
    /\ result = None
    /\ previous = None
    /\ calls = [c \in Callers |-> IdleCall]
    /\ scopeTree = [s \in Scopes |-> {}]
    /\ trust = None /\ trustConfig = None

GatewayRouteSpec_http ==
    /\ spec = None
    /\ \E opts \in HttpGatewayRouteSpecOptions :
        /\ options' = Some(opts)
        /\ spec' = Some(HttpGatewayRouteSpec(opts, Protocol_HTTP))
    /\ factory' = Some("http")
    /\ UNCHANGED <<result, previous, calls, scopeTree, trust, trustConfig>>

GatewayRouteSpec_http2 ==
    /\ spec = None
    /\ \E opts \in HttpGatewayRouteSpecOptions :
        /\ options' = Some(opts)
        /\ spec' = Some(HttpGatewayRouteSpec(opts, Protocol_HTTP2))
    /\ factory' = Some("http2")
    /\ UNCHANGED <<result, previous, calls, scopeTree, trust, trustConfig>>

GatewayRouteSpec_grpc ==
    /\ spec = None
    /\ \E opts \in GrpcGatewayRouteSpecOptions :
        /\ options' = Some(opts)
        /\ spec' = Some(GrpcGatewayRouteSpec(opts))
    /\ factory' = Some("grpc")
    /\ UNCHANGED <<result, previous, calls, scopeTree, trust, trustConfig>>

Bind ==
    /\ spec # None
    /\ \E scope \in Scopes :
        result' = Some(GatewayRouteSpec_bind(Get(spec), scope))
    /\ previous' = result
    /\ UNCHANGED <<factory, options, spec, calls, scopeTree, trust, trustConfig>>

Next ==
    \/ GatewayRouteSpec_http
    \/ GatewayRouteSpec_http2
    \/ GatewayRouteSpec_grpc
    \/ Bind

Spec == Init /\ [][Next]_vars

(***************************************************************************)
(* The same program with matches and rewrites that are the caller's own    *)
(* subclasses of the exported abstract classes, holding a config with any  *)
(* of its fields set or none.                                              *)
(***************************************************************************)
HttpGatewayRouteMatchSubclasses ==
    {HttpGatewayRouteMatchSubclass(
        [EmptyHttpRequestMatch EXCEPT !.prefix = p, !.method = m]) :
            p \in Optional(Prefixes), m \in OptionMethods}

HttpGatewayRouteRewriteSubclasses ==
    {HttpGatewayRouteRewriteSubclass([hostname |-> h, path |-> pa, prefix |-> pr]) :
        h \in Optional({[defaultTargetHostname |-> Some(Default_ENABLED)]}),
        pa \in Optional({[exact |-> e] : e \in RewritePaths}),
        pr \in Optional({[defaultPrefix |-> Some(Default_ENABLED), value |-> None]})}

GrpcGatewayRouteMatchSubclasses ==
    {GrpcGatewayRouteMatchSubclass([hostname |-> h, metadata |-> md, serviceName |-> n]) :
        h \in Optional({[exact |-> Some("example.com"), suffix |-> None]}),
        md \in Optional({<<>>}),
        n \in Optional(ServiceNames)}

HttpGatewayRouteSpecOptionsOfSubclasses ==
    [match : Optional(HttpGatewayRouteMatchSubclasses),
     routeTarget : VirtualServices,
     rewrite : Optional(HttpGatewayRouteRewriteSubclasses)]

GrpcGatewayRouteSpecOptionsOfSubclasses ==
    [match : GrpcGatewayRouteMatchSubclasses,
     routeTarget : VirtualServices,
     rewrite : Optional(GrpcGatewayRouteRewrites)]

GatewayRouteSpec_http_OfSubclasses ==
    /\ spec = None
    /\ \E opts \in HttpGatewayRouteSpecOptionsOfSubclasses :
        /\ options' = Some(opts)
        /\ spec' = Some(HttpGatewayRouteSpec(opts, Protocol_HTTP))
    /\ factory' = Some("http")
    /\ UNCHANGED <<result, previous, calls, scopeTree, trust, trustConfig>>

GatewayRouteSpec_http2_OfSubclasses ==
    /\ spec = None
    /\ \E opts \in HttpGatewayRouteSpecOptionsOfSubclasses :
        /\ options' = Some(opts)
        /\ spec' = Some(HttpGatewayRouteSpec(opts, Protocol_HTTP2))
    /\ factory' = Some("http2")
    /\ UNCHANGED <<result, previous, calls, scopeTree, trust, trustConfig>>

GatewayRouteSpec_grpc_OfSubclasses ==
    /\ spec = None
    /\ \E opts \in GrpcGatewayRouteSpecOptionsOfSubclasses :
        /\ options' = Some(opts)
        /\ spec' = Some(GrpcGatewayRouteSpec(opts))
    /\ factory' = Some("grpc")
    /\ UNCHANGED <<result, previous, calls, scopeTree, trust, trustConfig>>

SubclassNext ==
    \/ GatewayRouteSpec_http_OfSubclasses
    \/ GatewayRouteSpec_http2_OfSubclasses
    \/ GatewayRouteSpec_grpc_OfSubclasses
    \/ Bind

SubclassSpec == Init /\ [][SubclassNext]_vars

(***************************************************************************)
(* Two callers, each creating a GatewayRouteSpec of its own and binding it *)
(* once.  A bind call advances statement by statement, so that the calls   *)
(* of the two callers interleave in every order:                           *)
(*   BindCall            entry: const prefixPath = ...   (HTTP, HTTP2)     *)
(*   FormatCheck         the check of prefixPath[0]                        *)
(*   PrefixRewriteCheck  the check of a prefix rewrite without a prefix    *)
(*   PathRewriteCheck    the check of a path rewrite with a prefix         *)
(*   Assemble            const httpConfig = ...; return                    *)
(*   GrpcReturn          the single return of GrpcGatewayRouteSpec.bind    *)
(* calls[c].prefixPath is the local constant of the call; calls[c].result  *)
(* is what the call threw or returned.                                     *)
(***************************************************************************)
InterleavedSpecs ==
    {HttpGatewayRouteSpec([match |-> m, routeTarget |-> t, rewrite |-> r], protocol) :
        m \in {None,
               Some(HttpGatewayRouteMatch_prefix(<<"/">>, None)),
               Some(HttpGatewayRouteMatch_prefix(<<"a">>, None)),
               Some(HttpGatewayRouteMatch_path(HttpPathMatch_matchingExactly("/health"),
                        Some([headers |-> None, method |-> None, hostname |-> None,
                              queryParameters |-> None])))},
        t \in {[virtualServiceName |-> "svc-a"]},
        r \in {None,
               Some(HttpGatewayRouteRewrite_path("/check", None)),
               Some(HttpGatewayRouteRewrite_customPrefix("/v2", None))},
        protocol \in {Protocol_HTTP, Protocol_HTTP2}}
    \cup {GrpcGatewayRouteSpec([match |-> m, routeTarget |-> t, rewrite |-> None]) :
        m \in {GrpcGatewayRouteMatch_serviceName("billing.v1", None),
               GrpcGatewayRouteMatch_metadata(<<>>, None)},
        t \in {[virtualServiceName |-> "svc-b"]}}

CreateSpec(c) ==
    /\ calls[c].spec = None
    /\ \E s \in InterleavedSpecs :
        calls' = [calls EXCEPT ![c].spec = Some(s)]
    /\ UNCHANGED <<factory, options, spec, result, previous, scopeTree,
                   trust, trustConfig>>

\* variant: prefixPath kept in one place shared by all calls
BindCall_SharedPrefixPath(c) ==
    /\ calls[c].pc = "idle"
    /\ IsSome(calls[c].spec)
    /\ \E scope \in Scopes :
        calls' =
            IF Get(calls[c].spec).class = "HttpGatewayRouteSpec"
            THEN [d \in Callers |->
                    IF d = c
                    THEN [calls[d] EXCEPT
                            !.scope = Some(scope),
                            !.prefixPath = PrefixPath(Get(calls[c].spec), scope),
                            !.pc = "formatCheck"]
                    ELSE [calls[d] EXCEPT
                            !.prefixPath = PrefixPath(Get(calls[c].spec), scope)]]
            ELSE [calls EXCEPT ![c].scope = Some(scope), ![c].pc = "grpcReturn"]
    /\ UNCHANGED <<factory, options, spec, result, previous, scopeTree,
                   trust, trustConfig>>

BindCall(c) ==
    /\ calls[c].pc = "idle"
    /\ IsSome(calls[c].spec)
    /\ \E scope \in Scopes :
        calls' =
            IF Get(calls[c].spec).class = "HttpGatewayRouteSpec"
            THEN [calls EXCEPT
                    ![c].scope = Some(scope),
                    ![c].prefixPath = PrefixPath(Get(calls[c].spec), scope),
                    ![c].pc = "formatCheck"]
            ELSE [calls EXCEPT ![c].scope = Some(scope), ![c].pc = "grpcReturn"]
    /\ UNCHANGED <<factory, options, spec, result, previous, scopeTree,
                   trust, trustConfig>>

FormatCheck(c) ==
    /\ calls[c].pc = "formatCheck"
    /\ calls' =
        IF PrefixFormatFails(calls[c].prefixPath)
        THEN [calls EXCEPT
                ![c].result = Some(Throw(InvalidPrefixFormat, calls[c].prefixPath)),
                ![c].pc = "done"]
        ELSE [calls EXCEPT ![c].pc = "prefixRewriteCheck"]
    /\ UNCHANGED <<factory, options, spec, result, previous, scopeTree,
                   trust, trustConfig>>

PrefixRewriteCheck(c) ==
    /\ calls[c].pc = "prefixRewriteCheck"
    /\ calls' =
        IF PrefixRewriteCheckFails(Get(calls[c].spec), Get(calls[c].scope))
        THEN [calls EXCEPT
                ![c].result = Some(Throw(PrefixRewriteRequiresPrefixMatch, None)),
                ![c].pc = "done"]
        ELSE [calls EXCEPT ![c].pc = "pathRewriteCheck"]
    /\ UNCHANGED <<factory, options, spec, result, previous, scopeTree,
                   trust, trustConfig>>

PathRewriteCheck(c) ==
    /\ calls[c].pc = "pathRewriteCheck"
    /\ calls' =
        IF PathRewriteCheckFails(Get(calls[c].spec), Get(calls[c].scope))
        THEN [calls EXCEPT
                ![c].result = Some(Throw(PathRewriteConflictsWithPrefixMatch, None)),
                ![c].pc = "done"]
        ELSE [calls EXCEPT ![c].pc = "assemble"]
    /\ UNCHANGED <<factory, options, spec, result, previous, scopeTree,
                   trust, trustConfig>>

\* variant: the returned config is also registered as a child of the scope
Assemble_RegistersInScope(c) ==
    /\ calls[c].pc = "assemble"
    /\ calls' = [calls EXCEPT
            ![c].result = Some(Return(HttpSpecConfig(Get(calls[c].spec).routeType,
                HttpConfig(Get(calls[c].spec), Get(calls[c].scope), calls[c].prefixPath)))),
            ![c].pc = "done"]
    /\ scopeTree' = [scopeTree EXCEPT ![Get(calls[c].scope)] = @ \cup {"GatewayRouteSpec"}]
    /\ UNCHANGED <<factory, options, spec, result, previous, trust, trustConfig>>

Assemble(c) ==
    /\ calls[c].pc = "assemble"
    /\ calls' = [calls EXCEPT
            ![c].result = Some(Return(HttpSpecConfig(Get(calls[c].spec).routeType,
                HttpConfig(Get(calls[c].spec), Get(calls[c].scope), calls[c].prefixPath)))),
            ![c].pc = "done"]
    /\ UNCHANGED <<factory, options, spec, result, previous, scopeTree,
                   trust, trustConfig>>

GrpcReturn(c) ==
    /\ calls[c].pc = "grpcReturn"
    /\ calls' = [calls EXCEPT
            ![c].result =
                Some(GrpcGatewayRouteSpec_bind(Get(calls[c].spec), Get(calls[c].scope))),
            ![c].pc = "done"]
    /\ UNCHANGED <<factory, options, spec, result, previous, scopeTree,
                   trust, trustConfig>>

InterleavedNext ==
    \E c \in Callers :
        \/ CreateSpec(c)
        \/ BindCall(c)
        \/ FormatCheck(c)
        \/ PrefixRewriteCheck(c)
        \/ PathRewriteCheck(c)
        \/ Assemble(c)
        \/ GrpcReturn(c)

InterleavedSpec == Init /\ [][InterleavedNext]_vars

(***************************************************************************)
(* TlsValidationTrust: the trust of a TLS validation context, created by   *)
(* one of the static methods acm, file and sds and bound by the construct  *)
(* that uses it.  A certificate authority is the object whose              *)
(* certificateAuthorityArn the ACM trust reads.                            *)
(***************************************************************************)
AuthorityArns == {"arn:ca-1", "arn:ca-2", "arn:ca-3", "arn:ca-4"}

CertificateAuthority(arn) == [certificateAuthorityArn |-> arn]

CertificateAuthorityLists ==
    UNION {[1..n -> {CertificateAuthority(a) : a \in AuthorityArns}] : n \in 0..MaxAuthorities}

CertificateChains == {"/etc/certs/chain.pem", ""}
SecretNames == {"ca-secret", ""}

TlsValidationTrust_file(props) ==
    [class |-> "TlsValidationFileTrust", certificateChain |-> props.certificateChain]

TlsValidationTrust_acm(props) ==
    [class |-> "TlsValidationAcmTrust",
     certificateAuthorities |-> props.certificateAuthorities]

TlsValidationTrust_sds(props) ==
    [class |-> "TlsValidationSdsTrust", secretName |-> props.secretName]

MissingCertificateAuthority ==
    "you must provide at least one Certificate Authority when creating an ACM Trust ClientPolicy"

\* a trust config: the keys the returned object literal does not have are None
TlsValidationTrustConfig(acm, file, sds) ==
    [tlsValidationTrust |-> [acm |-> acm, file |-> file, sds |-> sds]]

\* variant: an empty list of authorities is compiled like any other
TlsValidationAcmTrust_bind_AcceptsEmpty(self, scope) ==
    Return(TlsValidationTrustConfig(
        Some([certificateAuthorityArns |->
                [i \in 1..Len(self.certificateAuthorities) |->
                    self.certificateAuthorities[i].certificateAuthorityArn]]),
        None, None))

TlsValidationAcmTrust_bind(self, scope) ==
    IF Len(self.certificateAuthorities) = 0
    THEN Throw(MissingCertificateAuthority, None)
    ELSE Return(TlsValidationTrustConfig(
            Some([certificateAuthorityArns |->
                    [i \in 1..Len(self.certificateAuthorities) |->
                        self.certificateAuthorities[i].certificateAuthorityArn]]),
            None, None))

TlsValidationFileTrust_bind(self, scope) ==
    Return(TlsValidationTrustConfig(
        None, Some([certificateChain |-> self.certificateChain]), None))

TlsValidationSdsTrust_bind(self, scope) ==
    Return(TlsValidationTrustConfig(
        None, None, Some([secretName |-> self.secretName])))

TlsValidationTrust_bind(self, scope) ==
    CASE self.class = "TlsValidationAcmTrust" -> TlsValidationAcmTrust_bind(self, scope)
      [] self.class = "TlsValidationFileTrust" -> TlsValidationFileTrust_bind(self, scope)
      [] self.class = "TlsValidationSdsTrust" -> TlsValidationSdsTrust_bind(self, scope)

CreateAcmTrust ==
    /\ trust = None
    /\ \E authorities \in CertificateAuthorityLists :
        trust' = Some(TlsValidationTrust_acm([certificateAuthorities |-> authorities]))
    /\ UNCHANGED <<factory, options, spec, result, previous, calls, scopeTree, trustConfig>>

CreateFileTrust ==
    /\ trust = None
    /\ \E chain \in CertificateChains :
        trust' = Some(TlsValidationTrust_file([certificateChain |-> chain]))
    /\ UNCHANGED <<factory, options, spec, result, previous, calls, scopeTree, trustConfig>>

CreateSdsTrust ==
    /\ trust = None
    /\ \E name \in SecretNames :
        trust' = Some(TlsValidationTrust_sds([secretName |-> name]))
    /\ UNCHANGED <<factory, options, spec, result, previous, calls, scopeTree, trustConfig>>

BindTrust ==
    /\ trust # None
    /\ \E scope \in Scopes :
        trustConfig' = Some(TlsValidationTrust_bind(Get(trust), scope))
    /\ UNCHANGED <<factory, options, spec, result, previous, calls, scopeTree, trust>>

TlsNext ==
    \/ CreateAcmTrust
    \/ CreateFileTrust
    \/ CreateSdsTrust
    \/ BindTrust

TlsSpec == Init /\ [][TlsNext]_vars

(***************************************************************************)
(* Vocabulary of the properties: what the caller supplied, read from the   *)
(* options it handed to the factory, and what the latest bind produced.    *)
(***************************************************************************)
Bound == IsSome(spec) /\ IsSome(result)
HttpFactory == factory \in {Some("http"), Some("http2")}
GrpcFactory == factory = Some("grpc")
BoundHttp == Bound /\ HttpFactory
BoundGrpc == Bound /\ GrpcFactory

Succeeded == Get(result).error = None /\ IsSome(Get(result).config)
FailedWith(message) ==
    /\ IsSome(Get(result).error)
    /\ Get(Get(result).error).message = message
    /\ Get(result).config = None

\* the HTTP or HTTP2 config of a successful bind
HttpOutput ==
    LET c == Get(Get(result).config)
    IN  IF IsSome(c.httpSpecConfig) THEN Get(c.httpSpecConfig) ELSE Get(c.http2SpecConfig)

\* the prefixOrPath option of a header / hostname / method / queryParameters match
SuppliedPrefixOrPath(m) ==
    IF m.class \in {"HttpGatewayRoutePrefixMatch", "HttpGatewayRoutePathMatch"}
    THEN None
    ELSE Opt(m.options, "prefixOrPath")

\* the prefix the caller gave: HttpGatewayRouteMatch.prefix(p) or prefixOrPath: prefix(p)
SuppliedPrefix(match) ==
    IF match = None THEN None
    ELSE IF Get(match).class = "HttpGatewayRoutePrefixMatch" THEN Some(Get(match).prefix)
    ELSE LET pop == SuppliedPrefixOrPath(Get(match))
         IN  IF IsSome(pop) /\ Get(pop).class = "HttpGatewayRoutePrefixMatchImpl"
             THEN Some(Get(pop).prefix)
             ELSE None

\* the caller gave a path: HttpGatewayRouteMatch.path(m) or prefixOrPath: path(m)
SuppliesPath(match) ==
    /\ match # None
    /\ \/ Get(match).class = "HttpGatewayRoutePathMatch"
       \/ LET pop == SuppliedPrefixOrPath(Get(match))
          IN  IsSome(pop) /\ Get(pop).class = "HttpGatewayRoutePathMatchImpl"

\* the 'other' option of a defaultHostname rewrite
SuppliedOther(rewrite) ==
    IF rewrite # None /\ Get(rewrite).class = "HttpGatewayRouteHostnameRewrite"
    THEN Opt(Get(rewrite).options, "other")
    ELSE None

SuppliesPrefixRewrite(rewrite) ==
    /\ rewrite # None
    /\ \/ Get(rewrite).class = "HttpGatewayRoutePrefixRewrite"
       \/ /\ IsSome(SuppliedOther(rewrite))
          /\ Get(SuppliedOther(rewrite)).class = "HttpGatewayRoutePrefixRewriteImpl"

SuppliesPathRewrite(rewrite) ==
    /\ rewrite # None
    /\ \/ Get(rewrite).class = "HttpGatewayRoutePathRewrite"
       \/ /\ IsSome(SuppliedOther(rewrite))
          /\ Get(SuppliedOther(rewrite)).class = "HttpGatewayRoutePathRewriteImpl"

StartsWithSlash(p) == p # <<>> /\ p[1] = "/"

(***************************************************************************)
(* C1: every HTTP or HTTP2 spec whose match supplies neither a prefix nor  *)
(* a path binds successfully, and the compiled match has prefix '/'.       *)
(***************************************************************************)
C1_DefaultPrefix ==
    (/\ BoundHttp
     /\ SuppliedPrefix(Get(options).match) = None
     /\ ~SuppliesPath(Get(options).match))
    => (Succeeded /\ HttpOutput.match.prefix = Some(<<"/">>))

\* C1 for a match built from header / hostname / method / queryParameters and
\* no rewrite, where no pairing check is involved: the compiled prefix is '/'
C1_DefaultPrefixOfGivenMatch ==
    (/\ BoundHttp
     /\ Get(options).match # None
     /\ Get(options).rewrite = None
     /\ SuppliedPrefix(Get(options).match) = None
     /\ ~SuppliesPath(Get(options).match))
    => (Succeeded /\ HttpOutput.match.prefix = Some(<<"/">>))

(***************************************************************************)
(* C2: every HTTP or HTTP2 spec whose match carries a prefix that does not *)
(* start with '/' fails with InvalidPrefixFormat and returns no config.    *)
(***************************************************************************)
C2_InvalidPrefixRejected ==
    (/\ BoundHttp
     /\ IsSome(SuppliedPrefix(Get(options).match))
     /\ ~StartsWithSlash(Get(SuppliedPrefix(Get(options).match))))
    => FailedWith(InvalidPrefixFormat)

C4_PathRewriteRejectedWithAnyPrefix ==
    (/\ BoundHttp
     /\ SuppliesPathRewrite(Get(options).rewrite)
     /\ IsSome(SuppliedPrefix(Get(options).match)))
    => FailedWith(PathRewriteConflictsWithPrefixMatch)

\* C4 as stated, for the non-empty prefixes alone: refuted by a prefix that does
\* not start with '/', which the format check rejects before the pairing checks
C4_PathRewriteRejectedWithNonEmptyPrefix ==
    (/\ BoundHttp
     /\ SuppliesPathRewrite(Get(options).rewrite)
     /\ IsSome(SuppliedPrefix(Get(options).match))
     /\ Get(SuppliedPrefix(Get(options).match)) # <<>>)
    => FailedWith(PathRewriteConflictsWithPrefixMatch)

(***************************************************************************)
(* C4 amended: every HTTP or HTTP2 spec with a path rewrite whose match    *)
(* contains a prefix that starts with '/' fails with                       *)
(* PathRewriteConflictsWithPrefixMatch.                                    *)
(***************************************************************************)
C4_PathRewriteRejectedWithValidPrefix ==
    (/\ BoundHttp
     /\ SuppliesPathRewrite(Get(options).rewrite)
     /\ IsSome(SuppliedPrefix(Get(options).match))
     /\ StartsWithSlash(Get(SuppliedPrefix(Get(options).match))))
    => FailedWith(PathRewriteConflictsWithPrefixMatch)

\* a prefixOrPath prefix '/' paired with defaultHostname(.., {other: path}) rejected
C4_Witness ==
    /\ BoundHttp
    /\ Get(options).match # None
    /\ Get(Get(options).match).class = "HttpGatewayRouteMethodMatch"
    /\ SuppliedPrefix(Get(options).match) = Some(<<"/">>)
    /\ Get(options).rewrite # None
    /\ Get(Get(options).rewrite).class = "HttpGatewayRouteHostnameRewrite"
    /\ SuppliesPathRewrite(Get(options).rewrite)
    /\ FailedWith(PathRewriteConflictsWithPrefixMatch)

(***************************************************************************)
(* C5: a config returned by bind has exactly one of httpSpecConfig,        *)
(* http2SpecConfig and grpcSpecConfig populated, the one of the factory    *)
(* that created the spec.                                                  *)
(***************************************************************************)
C5_ExactlyOneProtocolSlot ==
    (Bound /\ IsSome(Get(result).config))
    => LET c == Get(Get(result).config)
       IN  /\ IsSome(c.httpSpecConfig) <=> factory = Some("http")
           /\ IsSome(c.http2SpecConfig) <=> factory = Some("http2")
           /\ IsSome(c.grpcSpecConfig) <=> factory = Some("grpc")

\* an http2 spec has been bound and its config returned
C5_Witness ==
    /\ Bound
    /\ factory = Some("http2")
    /\ Succeeded
    /\ IsSome(Get(Get(result).config).http2SpecConfig)
    /\ Get(Get(result).config).httpSpecConfig = None
    /\ Get(Get(result).config).grpcSpecConfig = None

(***************************************************************************)
(* C6: a gRPC spec created with rewrite defaultHostname(d) compiles to a   *)
(* grpcSpecConfig whose action.rewrite.hostname.defaultTargetHostname is d.*)
(***************************************************************************)
C6_GrpcRewriteCarried ==
    (BoundGrpc /\ Get(options).rewrite # None)
    => /\ Succeeded
       /\ Get(Get(Get(result).config).grpcSpecConfig).action.rewrite =
            Some([hostname |-> Some([defaultTargetHostname |->
                Some(Get(Get(options).rewrite).defaultTarget)])])

(***************************************************************************)
(* C7: the pairing checks read the resolved prefix (the prefixPath of the  *)
(* format check, '/' when the match is omitted): a spec that passes the    *)
(* format check is rejected with PrefixRewriteRequiresPrefixMatch exactly  *)
(* when it has a prefix rewrite and no resolved prefix, and otherwise with *)
(* PathRewriteConflictsWithPrefixMatch exactly when it has a path rewrite  *)
(* and a resolved prefix.                                                  *)
(***************************************************************************)
C7_PairingReadsResolvedPrefix ==
    BoundHttp =>
        \A scope \in Scopes :
            LET prefixPath == PrefixPath(Get(spec), scope)
                needsPrefix == /\ SuppliesPrefixRewrite(Get(options).rewrite)
                               /\ ~TruthyString(prefixPath)
                conflicts == /\ SuppliesPathRewrite(Get(options).rewrite)
                             /\ TruthyString(prefixPath)
            IN  ~PrefixFormatFails(prefixPath) =>
                    /\ FailedWith(PrefixRewriteRequiresPrefixMatch) <=> needsPrefix
                    /\ FailedWith(PathRewriteConflictsWithPrefixMatch)
                            <=> (~needsPrefix /\ conflicts)

(***************************************************************************)
(* C8: in a compiled HTTP or HTTP2 config, a prefix rewrite comes with a   *)
(* match prefix and a path rewrite comes without one.                      *)
(***************************************************************************)
C8_RewritePairedWithMatch ==
    (BoundHttp /\ Succeeded /\ IsSome(HttpOutput.action.rewrite))
    => LET rewrite == Get(HttpOutput.action.rewrite)
       IN  /\ IsSome(rewrite.prefix) => IsSome(HttpOutput.match.prefix)
           /\ IsSome(rewrite.path) => HttpOutput.match.prefix = None

(***************************************************************************)
(* C9: in a compiled HTTP or HTTP2 config, match.prefix and match.path are *)
(* never both present.                                                     *)
(***************************************************************************)
C9_PrefixAndPathExclusive ==
    (BoundHttp /\ Succeeded)
    => ~(IsSome(HttpOutput.match.prefix) /\ IsSome(HttpOutput.match.path))

\* a hostname match with prefixOrPath: path(..) compiled: path present, no prefix
C9_Witness ==
    /\ BoundHttp
    /\ Succeeded
    /\ Get(options).match # None
    /\ Get(Get(options).match).class = "HttpGatewayRouteHostnameMatch"
    /\ SuppliesPath(Get(options).match)
    /\ IsSome(HttpOutput.match.path)
    /\ HttpOutput.match.prefix = None

(***************************************************************************)
(* C10: bind is fail-fast: a bind call that ends with an error returns no  *)
(* config, and no bind call changes the spec (its match, rewrite, target)  *)
(* nor the options it was created from.                                    *)
(***************************************************************************)
C10_FailFast ==
    [][IsSome(spec) =>
        /\ spec' = spec
        /\ options' = options
        /\ (IsSome(result') /\ IsSome(Get(result').error))
                => Get(result').config = None]_vars

\* a bind has failed a validation check: an error, no config, the spec as created
C10_Witness ==
    /\ BoundHttp
    /\ IsSome(Get(result).error)
    /\ Get(result).config = None
    /\ Get(spec) = HttpGatewayRouteSpec(Get(options), Get(spec).routeType)

C12_PrefixMatchWithCustomPrefix ==
    (/\ BoundHttp
     /\ Get(options).match # None
     /\ Get(Get(options).match).class = "HttpGatewayRoutePrefixMatch"
     /\ StartsWithSlash(Get(Get(options).match).prefix)
     /\ Get(options).rewrite # None
     /\ Get(Get(options).rewrite).class = "HttpGatewayRoutePrefixRewrite"
     /\ IsSome(Get(Get(options).rewrite).prefixRewrite.value))
    => /\ Succeeded
       /\ HttpOutput.match.prefix = Some(Get(Get(options).match).prefix)
       /\ IsSome(HttpOutput.action.rewrite)
       /\ IsSome(Get(HttpOutput.action.rewrite).prefix)
       /\ Get(Get(HttpOutput.action.rewrite).prefix).value =
            Get(Get(options).rewrite).prefixRewrite.value
       /\ Get(HttpOutput.action.rewrite).path = None

\* prefix('/') with customPrefix('/v2') under protocol HTTP has compiled
C12_Witness ==
    /\ Bound
    /\ factory = Some("http")
    /\ Get(options).match # None
    /\ Get(Get(options).match).class = "HttpGatewayRoutePrefixMatch"
    /\ Get(Get(options).match).prefix = <<"/">>
    /\ Get(options).rewrite # None
    /\ Get(Get(options).rewrite).class = "HttpGatewayRoutePrefixRewrite"
    /\ Get(Get(options).rewrite).prefixRewrite.value = Some("/v2")
    /\ Succeeded
    /\ Get(Get(HttpOutput.action.rewrite).prefix).value = Some("/v2")

(***************************************************************************)
(* C13: a spec whose match is HttpGatewayRouteMatch.path(m) and whose      *)
(* rewrite is HttpGatewayRouteRewrite.path(e) binds successfully, to       *)
(* match.path == m, no match.prefix and action.rewrite.path.exact == e;    *)
(* under protocol HTTP2 the config is in http2SpecConfig and httpSpecConfig*)
(* is empty.                                                               *)
(***************************************************************************)
C13_PathMatchWithPathRewrite ==
    (/\ BoundHttp
     /\ Get(options).match # None
     /\ Get(Get(options).match).class = "HttpGatewayRoutePathMatch"
     /\ Get(options).rewrite # None
     /\ Get(Get(options).rewrite).class = "HttpGatewayRoutePathRewrite")
    => /\ Succeeded
       /\ factory = Some("http2") =>
            /\ IsSome(Get(Get(result).config).http2SpecConfig)
            /\ Get(Get(result).config).httpSpecConfig = None
       /\ HttpOutput.match.path = Some(Get(Get(options).match).pathMatch.pathMatch)
       /\ HttpOutput.match.prefix = None
       /\ IsSome(HttpOutput.action.rewrite)
       /\ Get(HttpOutput.action.rewrite).path =
            Some([exact |-> Get(Get(options).rewrite).exact])

\* path(matchingExactly('/health')) with path('/check') under HTTP2 has compiled
C13_Witness ==
    /\ Bound
    /\ factory = Some("http2")
    /\ Get(options).match # None
    /\ Get(Get(options).match).class = "HttpGatewayRoutePathMatch"
    /\ Get(Get(options).match).pathMatch = HttpPathMatch_matchingExactly("/health")
    /\ Get(options).rewrite # None
    /\ Get(Get(options).rewrite).class = "HttpGatewayRoutePathRewrite"
    /\ Succeeded
    /\ IsSome(Get(Get(result).config).http2SpecConfig)
    /\ Get(Get(Get(result).config).http2SpecConfig).match.path =
            Some([exact |-> Some("/health"), regex |-> None])

(***************************************************************************)
(* C14: an HTTP or HTTP2 spec created with a prefix that starts with '/'   *)
(* and with no rewrite compiles to a match.prefix equal to that prefix, no *)
(* action.rewrite, and the routeTarget's name as                           *)
(* action.target.virtualService.virtualServiceName.                        *)
(***************************************************************************)
C14_PrefixMatchWithoutRewrite ==
    (/\ BoundHttp
     /\ IsSome(SuppliedPrefix(Get(options).match))
     /\ StartsWithSlash(Get(SuppliedPrefix(Get(options).match)))
     /\ Get(options).rewrite = None)
    => /\ Succeeded
       /\ HttpOutput.match.prefix = SuppliedPrefix(Get(options).match)
       /\ HttpOutput.action.rewrite = None
       /\ HttpOutput.action.target.virtualService.virtualServiceName =
            Get(options).routeTarget.virtualServiceName

\* prefix('/') for target svc-b and no rewrite has compiled under protocol HTTP
C14_Witness ==
    /\ Bound
    /\ factory = Some("http")
    /\ Get(options).match # None
    /\ Get(Get(options).match).class = "HttpGatewayRoutePrefixMatch"
    /\ Get(Get(options).match).prefix = <<"/">>
    /\ Get(options).rewrite = None
    /\ Get(options).routeTarget.virtualServiceName = "svc-b"
    /\ Succeeded
    /\ HttpOutput.match.prefix = Some(<<"/">>)
    /\ HttpOutput.action.target.virtualService.virtualServiceName = "svc-b"

(***************************************************************************)
(* The field values a match was built from, whatever the entry point, and  *)
(* the same values handed to each entry point that can take them.          *)
(***************************************************************************)
SuppliedFields(m) ==
    [prefix |-> SuppliedPrefix(Some(m)),
     pathMatch |->
        IF m.class = "HttpGatewayRoutePathMatch" THEN Some(m.pathMatch)
        ELSE LET pop == SuppliedPrefixOrPath(m)
             IN  IF IsSome(pop) /\ Get(pop).class = "HttpGatewayRoutePathMatchImpl"
                 THEN Some(Get(pop).pathMatch)
                 ELSE None,
     headers |-> IF m.class = "HttpGatewayRouteHeaderMatch" THEN Some(m.header)
                 ELSE Opt(m.options, "headers"),
     hostname |-> IF m.class = "HttpGatewayRouteHostnameMatch" THEN Some(m.hostname)
                  ELSE Opt(m.options, "hostname"),
     method |-> IF m.class = "HttpGatewayRouteMethodMatch" THEN Some(m.method)
                ELSE Opt(m.options, "method"),
     queryParameters |->
        IF m.class = "HttpGatewayRouteQueryParameterMatch" THEN Some(m.queryParameter)
        ELSE Opt(m.options, "queryParameters")]

PrefixOrPathOf(f) ==
    IF IsSome(f.prefix)
    THEN Some(HttpGatewayRoutePathOrPrefixMatch_prefix(Get(f.prefix)))
    ELSE IF IsSome(f.pathMatch)
    THEN Some(HttpGatewayRoutePathOrPrefixMatch_path(Get(f.pathMatch)))
    ELSE None

\* the matches that each entry point builds from the field values f
SameFieldsMatches(f) ==
    (IF IsSome(f.prefix)
     THEN {HttpGatewayRouteMatch_prefix(Get(f.prefix),
        Some([headers |-> f.headers, hostname |-> f.hostname, method |-> f.method,
              queryParameters |-> f.queryParameters]))}
     ELSE {})
    \cup (IF IsSome(f.pathMatch)
     THEN {HttpGatewayRouteMatch_path(Get(f.pathMatch),
        Some([headers |-> f.headers, hostname |-> f.hostname, method |-> f.method,
              queryParameters |-> f.queryParameters]))}
     ELSE {})
    \cup (IF IsSome(f.headers)
     THEN {HttpGatewayRouteMatch_header(Get(f.headers),
        Some([hostname |-> f.hostname, method |-> f.method,
              queryParameters |-> f.queryParameters,
              prefixOrPath |-> PrefixOrPathOf(f)]))}
     ELSE {})
    \cup (IF IsSome(f.hostname)
     THEN {HttpGatewayRouteMatch_hostname(Get(f.hostname),
        Some([headers |-> f.headers, method |-> f.method,
              queryParameters |-> f.queryParameters,
              prefixOrPath |-> PrefixOrPathOf(f)]))}
     ELSE {})
    \cup (IF IsSome(f.method)
     THEN {HttpGatewayRouteMatch_method(Get(f.method),
        Some([headers |-> f.headers, hostname |-> f.hostname,
              queryParameters |-> f.queryParameters,
              prefixOrPath |-> PrefixOrPathOf(f)]))}
     ELSE {})
    \cup (IF IsSome(f.queryParameters)
     THEN {HttpGatewayRouteMatch_queryParameters(Get(f.queryParameters),
        Some([headers |-> f.headers, hostname |-> f.hostname, method |-> f.method,
              prefixOrPath |-> PrefixOrPathOf(f)]))}
     ELSE {})

(***************************************************************************)
(* C15: the six HttpGatewayRouteMatch entry points converge: the match of  *)
(* a bound spec and the match built from the same field values through any *)
(* other entry point bind to equal prefix, path, headers, hostname, method *)
(* and queryParameters.                                                    *)
(***************************************************************************)
C15_EntryPointsConverge ==
    (BoundHttp /\ Get(options).match # None)
    => \A scope \in Scopes :
        \A other \in SameFieldsMatches(SuppliedFields(Get(Get(options).match))) :
            HttpGatewayRouteMatch_bind(other, scope).requestMatch =
                HttpGatewayRouteMatch_bind(Get(Get(options).match), scope).requestMatch

\* a method match carrying headers, a hostname and a prefix has been bound:
\* four other entry points take the same values
C15_Witness ==
    /\ BoundHttp
    /\ Succeeded
    /\ Get(options).match # None
    /\ Get(Get(options).match).class = "HttpGatewayRouteMethodMatch"
    /\ IsSome(SuppliedFields(Get(Get(options).match)).headers)
    /\ IsSome(SuppliedFields(Get(Get(options).match)).hostname)
    /\ SuppliedFields(Get(Get(options).match)).prefix = Some(<<"/">>)
    /\ Cardinality(SameFieldsMatches(SuppliedFields(Get(Get(options).match)))) >= 4
    /\ IsSome(HttpOutput.match.headers)
    /\ IsSome(HttpOutput.match.method)

(***************************************************************************)
(* C16: a gRPC match built by GrpcGatewayRouteMatch.hostname, .metadata or *)
(* .serviceName binds to a requestMatch with at least one of hostname,     *)
(* metadata and serviceName present, and so does every compiled            *)
(* grpcSpecConfig.match.                                                   *)
(***************************************************************************)
C16_GrpcMatchHasADiscriminant ==
    (IsSome(spec) /\ GrpcFactory)
    => /\ \A scope \in Scopes :
            LET requestMatch ==
                    GrpcGatewayRouteMatch_bind(Get(options).match, scope).requestMatch
            IN  \/ IsSome(requestMatch.hostname)
                \/ IsSome(requestMatch.metadata)
                \/ IsSome(requestMatch.serviceName)
       /\ (Bound /\ IsSome(Get(result).config)) =>
            LET match == Get(Get(Get(result).config).grpcSpecConfig).match
            IN  \/ IsSome(match.hostname)
                \/ IsSome(match.metadata)
                \/ IsSome(match.serviceName)

\* metadata([]) without options has compiled: an empty list, present, nothing else
C16_Witness ==
    /\ BoundGrpc
    /\ Succeeded
    /\ Get(options).match = GrpcGatewayRouteMatch_metadata(<<>>, None)
    /\ Get(Get(Get(result).config).grpcSpecConfig).match.metadata = Some(<<>>)
    /\ Get(Get(Get(result).config).grpcSpecConfig).match.hostname = None
    /\ Get(Get(Get(result).config).grpcSpecConfig).match.serviceName = None

(***************************************************************************)
(* The values a gRPC match was built from, and the same values handed to   *)
(* each entry point that can take them.                                    *)
(***************************************************************************)
GrpcSuppliedFields(m) ==
    [hostname |-> IF m.class = "GrpcGatewayRouteHostnameMatchImpl" THEN Some(m.hostname)
                  ELSE Opt(m.options, "hostname"),
     metadata |-> IF m.class = "GrpcGatewayRouteMetadataMatchImpl" THEN Some(m.metadata)
                  ELSE Opt(m.options, "metadata"),
     serviceName |->
        IF m.class = "GrpcGatewayRouteServicenameMatchImpl" THEN Some(m.serviceName)
        ELSE Opt(m.options, "serviceName")]

GrpcSameFieldsMatches(f) ==
    (IF IsSome(f.hostname)
     THEN {GrpcGatewayRouteMatch_hostname(Get(f.hostname),
        Some([metadata |-> f.metadata, serviceName |-> f.serviceName]))}
     ELSE {})
    \cup (IF IsSome(f.metadata)
     THEN {GrpcGatewayRouteMatch_metadata(Get(f.metadata),
        Some([hostname |-> f.hostname, serviceName |-> f.serviceName]))}
     ELSE {})
    \cup (IF IsSome(f.serviceName)
     THEN {GrpcGatewayRouteMatch_serviceName(Get(f.serviceName),
        Some([hostname |-> f.hostname, metadata |-> f.metadata]))}
     ELSE {})

(***************************************************************************)
(* C17: the three GrpcGatewayRouteMatch entry points are symmetric: the    *)
(* match of a bound gRPC spec and the match built from the same hostname,  *)
(* metadata and serviceName through any other entry point bind to equal    *)
(* requestMatch values, and the bind rejects no value of the discriminant. *)
(***************************************************************************)
C17_GrpcEntryPointsSymmetric ==
    BoundGrpc
    => /\ Succeeded
       /\ \A scope \in Scopes :
            \A other \in GrpcSameFieldsMatches(GrpcSuppliedFields(Get(options).match)) :
                /\ GrpcGatewayRouteMatch_bind(other, scope).requestMatch =
                    GrpcGatewayRouteMatch_bind(Get(options).match, scope).requestMatch
                /\ GrpcGatewayRouteMatch_bind(other, scope).requestMatch =
                    Get(Get(Get(result).config).grpcSpecConfig).match

\* a serviceName match carrying a hostname and a metadata list has been bound:
\* all three entry points take the same values
C17_Witness ==
    /\ BoundGrpc
    /\ Succeeded
    /\ Get(options).match.class = "GrpcGatewayRouteServicenameMatchImpl"
    /\ IsSome(GrpcSuppliedFields(Get(options).match).hostname)
    /\ IsSome(GrpcSuppliedFields(Get(options).match).metadata)
    /\ Cardinality(GrpcSameFieldsMatches(GrpcSuppliedFields(Get(options).match))) = 3
    /\ IsSome(Get(Get(Get(result).config).grpcSpecConfig).match.hostname)

(***************************************************************************)
(* The same rewrite through the other entry point: the 'other' rewrite of  *)
(* defaultHostname(h, {other}) given directly with defaultTargetHostname h,*)
(* and a direct path / prefix rewrite with defaultTargetHostname h (a      *)
(* member of Default) given as the 'other' option of defaultHostname(h).   *)
(***************************************************************************)
SameRewrites(rewrite) ==
    IF rewrite.class = "HttpGatewayRouteHostnameRewrite"
    THEN LET other == Opt(rewrite.options, "other")
             opts == Some([defaultTargetHostname |-> Some(rewrite.defaultTarget)])
         IN  IF other = None THEN {}
             ELSE IF Get(other).class = "HttpGatewayRoutePathRewriteImpl"
             THEN {HttpGatewayRouteRewrite_path(Get(other).exact, opts)}
             ELSE IF IsSome(Get(other).prefixRewrite.value)
             THEN {HttpGatewayRouteRewrite_customPrefix(
                        Get(Get(other).prefixRewrite.value), opts)}
             ELSE {HttpGatewayRouteRewrite_defaultPrefix(
                        Get(Get(other).prefixRewrite.defaultPrefix), opts)}
    ELSE LET h == Opt(rewrite.options, "defaultTargetHostname")
         IN  IF h = None \/ Get(h) \notin Default THEN {}
             ELSE IF rewrite.class = "HttpGatewayRoutePathRewrite"
             THEN {HttpGatewayRouteRewrite_defaultHostname(Get(h),
                    Some([other |->
                        Some(HttpGatewayRouteHostnameOtherRewrite_path(rewrite.exact))]))}
             ELSE IF IsSome(rewrite.prefixRewrite.value)
             THEN {HttpGatewayRouteRewrite_defaultHostname(Get(h),
                    Some([other |->
                        Some(HttpGatewayRouteHostnameOtherRewrite_customPrefix(
                                Get(rewrite.prefixRewrite.value)))]))}
             ELSE {HttpGatewayRouteRewrite_defaultHostname(Get(h),
                    Some([other |->
                        Some(HttpGatewayRouteHostnameOtherRewrite_defaultPrefix(
                                Get(rewrite.prefixRewrite.defaultPrefix)))]))}

(***************************************************************************)
(* C18: the HttpGatewayRouteRewrite entry points resolve to one shape:     *)
(* defaultHostname(h, {other: path(e)}) binds to the same rewrite config   *)
(* as path(e, {defaultTargetHostname: h}), and defaultHostname(h, {other:  *)
(* customPrefix(v) or defaultPrefix(d)}) to the same config as             *)
(* customPrefix(v, ..) or defaultPrefix(d, ..) with defaultTargetHostname h*)
(***************************************************************************)
C18_RewriteEntryPointsAgree ==
    (BoundHttp /\ Get(options).rewrite # None)
    => \A scope \in Scopes :
        \A other \in SameRewrites(Get(Get(options).rewrite)) :
            HttpGatewayRouteRewrite_bind(other, scope) =
                HttpGatewayRouteRewrite_bind(Get(Get(options).rewrite), scope)

\* defaultHostname(enabled, {other: customPrefix('/v2')}) on a prefix match has
\* compiled, with the hostname and the prefix both in action.rewrite
C18_Witness ==
    /\ BoundHttp
    /\ Succeeded
    /\ Get(options).rewrite # None
    /\ Get(Get(options).rewrite).class = "HttpGatewayRouteHostnameRewrite"
    /\ Get(Get(options).rewrite).defaultTarget = Default_ENABLED
    /\ SameRewrites(Get(Get(options).rewrite)) =
            {HttpGatewayRouteRewrite_customPrefix("/v2",
                Some([defaultTargetHostname |-> Some(Default_ENABLED)]))}
    /\ Get(HttpOutput.action.rewrite).hostname =
            Some([defaultTargetHostname |-> Some(Default_ENABLED)])
    /\ Get(HttpOutput.action.rewrite).prefix =
            Some([defaultPrefix |-> None, value |-> Some("/v2")])

(***************************************************************************)
(* C19: a rewrite config bound from any HttpGatewayRouteRewrite entry      *)
(* point has at most one of path and prefix present; so has every compiled *)
(* action.rewrite, and the two pairing checks never both reject one spec.  *)
(***************************************************************************)
C19_RewritePathAndPrefixExclusive ==
    (IsSome(spec) /\ HttpFactory)
    => /\ \A scope \in Scopes :
            /\ Get(options).rewrite # None =>
                LET rewrite == HttpGatewayRouteRewrite_bind(Get(Get(options).rewrite), scope)
                IN  ~(IsSome(rewrite.path) /\ IsSome(rewrite.prefix))
            /\ ~(/\ PrefixRewriteCheckFails(Get(spec), scope)
                 /\ PathRewriteCheckFails(Get(spec), scope))
       /\ (Bound /\ Succeeded /\ IsSome(HttpOutput.action.rewrite)) =>
            ~(/\ IsSome(Get(HttpOutput.action.rewrite).path)
              /\ IsSome(Get(HttpOutput.action.rewrite).prefix))

\* defaultHostname(.., {other: path('/check')}) on a path match has compiled:
\* action.rewrite has the path and no prefix
C19_Witness ==
    /\ BoundHttp
    /\ Succeeded
    /\ Get(options).match # None
    /\ Get(Get(options).match).class = "HttpGatewayRoutePathMatch"
    /\ Get(options).rewrite # None
    /\ Get(Get(options).rewrite).class = "HttpGatewayRouteHostnameRewrite"
    /\ SuppliesPathRewrite(Get(options).rewrite)
    /\ Get(HttpOutput.action.rewrite).path = Some([exact |-> "/check"])
    /\ Get(HttpOutput.action.rewrite).prefix = None

(***************************************************************************)
(* A bound match or rewrite with none of its fields populated.             *)
(***************************************************************************)
MissingDiscriminant == "MissingDiscriminant"

NoFieldPopulated(config) == \A field \in DOMAIN config : config[field] = None

MatchResolvesEmpty(self, scope) ==
    IF self.class = "HttpGatewayRouteSpec"
    THEN /\ IsSome(self.match)
         /\ NoFieldPopulated(HttpGatewayRouteMatch_bind(Get(self.match), scope).requestMatch)
    ELSE NoFieldPopulated(GrpcGatewayRouteMatch_bind(self.match, scope).requestMatch)

RewriteResolvesEmpty(self, scope) ==
    /\ self.class = "HttpGatewayRouteSpec"
    /\ IsSome(self.rewrite)
    /\ NoFieldPopulated(HttpGatewayRouteRewrite_bind(Get(self.rewrite), scope))

(***************************************************************************)
(* C20: bind does not rely on the builders: when the match or the rewrite  *)
(* of the spec resolves to a value with none of its discriminant fields    *)
(* populated, bind fails with MissingDiscriminant and returns no config.   *)
(***************************************************************************)
C20_MissingDiscriminantRejected ==
    Bound =>
        \A scope \in Scopes :
            (MatchResolvesEmpty(Get(spec), scope) \/ RewriteResolvesEmpty(Get(spec), scope))
                => FailedWith(MissingDiscriminant)

\* C20 whatever the error is called: such a spec is rejected with some error
C20_EmptyValueRejected ==
    Bound =>
        \A scope \in Scopes :
            (MatchResolvesEmpty(Get(spec), scope) \/ RewriteResolvesEmpty(Get(spec), scope))
                => (IsSome(Get(result).error) /\ Get(result).config = None)

(***************************************************************************)
(* The rewrite of a compiled config, whatever the protocol.                *)
(***************************************************************************)
OutputRewrite ==
    LET c == Get(Get(result).config)
    IN  IF IsSome(c.grpcSpecConfig)
        THEN Get(c.grpcSpecConfig).action.rewrite
        ELSE HttpOutput.action.rewrite

(***************************************************************************)
(* C21: in every compiled HTTP, HTTP2 or gRPC config, an action.rewrite    *)
(* that has a hostname has a defaultTargetHostname that is one of enabled  *)
(* and disabled, whether the rewrite was built by path, defaultPrefix or   *)
(* customPrefix, with or without the defaultTargetHostname option, or by   *)
(* defaultHostname.                                                        *)
(***************************************************************************)
C21_HostnameRewriteIsEnabledOrDisabled ==
    (/\ Bound
     /\ Succeeded
     /\ IsSome(OutputRewrite)
     /\ IsSome(Get(OutputRewrite).hostname))
    => /\ IsSome(Get(Get(OutputRewrite).hostname).defaultTargetHostname)
       /\ Get(Get(Get(OutputRewrite).hostname).defaultTargetHostname) \in Default

\* C21 for the rewrites built without the defaultTargetHostname option alone
C21_HostnameRewriteWithoutOption ==
    (/\ BoundHttp
     /\ Succeeded
     /\ Get(options).rewrite # None
     /\ Get(Get(options).rewrite).class \in
            {"HttpGatewayRoutePathRewrite", "HttpGatewayRoutePrefixRewrite"}
     /\ Opt(Get(Get(options).rewrite).options, "defaultTargetHostname") = None
     /\ IsSome(Get(OutputRewrite).hostname))
    => /\ IsSome(Get(Get(OutputRewrite).hostname).defaultTargetHostname)
       /\ Get(Get(Get(OutputRewrite).hostname).defaultTargetHostname) \in Default

\* C21 for the rewrites built with the defaultTargetHostname option alone
C21_HostnameRewriteWithOption ==
    (/\ BoundHttp
     /\ Succeeded
     /\ Get(options).rewrite # None
     /\ Get(Get(options).rewrite).class \in
            {"HttpGatewayRoutePathRewrite", "HttpGatewayRoutePrefixRewrite"}
     /\ IsSome(Opt(Get(Get(options).rewrite).options, "defaultTargetHostname"))
     /\ IsSome(Get(OutputRewrite).hostname))
    => /\ IsSome(Get(Get(OutputRewrite).hostname).defaultTargetHostname)
       /\ Get(Get(Get(OutputRewrite).hostname).defaultTargetHostname) \in Default

MatcherVariants == {"exact", "prefix", "suffix", "regex", "range"}
PopulatedVariants(match) == {v \in MatcherVariants : IsSome(match[v])}

MetadataNames == {"k", "x-trace"}
MetadataValues == {"v", ""}
RangeEnds == {0, 1, 5}

\* a positive constructor's metadataMatch: the name, not inverted, one variant
IsPositive(metadataMatch, name, variant, value) ==
    /\ metadataMatch.name = name
    /\ metadataMatch.invert = FALSE
    /\ PopulatedVariants(metadataMatch.match) = {variant}
    /\ metadataMatch.match[variant] = Some(value)

\* a negated constructor's metadataMatch: that of the positive one, inverted
IsNegationOf(negated, positive) ==
    /\ negated.invert = TRUE
    /\ negated = [positive EXCEPT !.invert = TRUE]

(***************************************************************************)
(* C23: every GrpcMetadataMatch constructor binds to a metadataMatch with  *)
(* the given name and exactly one of exact, prefix, suffix, regex, range   *)
(* populated; a negated constructor gives invert == true and otherwise the *)
(* metadataMatch of its positive counterpart, which gives invert == false; *)
(* range start and end are carried unchanged.  So is every metadataMatch   *)
(* of a compiled gRPC config.                                              *)
(***************************************************************************)
C23_MetadataMatchConstructors ==
    BoundGrpc =>
        /\ \A scope \in Scopes, n \in MetadataNames, v \in MetadataValues :
            /\ IsPositive(MetadataMatchImpl_bind(
                    GrpcMetadataMatch_valueIs(n, v), scope).metadataMatch, n, "exact", v)
            /\ IsPositive(MetadataMatchImpl_bind(
                    GrpcMetadataMatch_valueStartsWith(n, v), scope).metadataMatch,
                    n, "prefix", v)
            /\ IsPositive(MetadataMatchImpl_bind(
                    GrpcMetadataMatch_valueEndsWith(n, v), scope).metadataMatch,
                    n, "suffix", v)
            /\ IsPositive(MetadataMatchImpl_bind(
                    GrpcMetadataMatch_valueMatchesRegex(n, v), scope).metadataMatch,
                    n, "regex", v)
            /\ IsNegationOf(
                MetadataMatchImpl_bind(GrpcMetadataMatch_valueIsNot(n, v), scope).metadataMatch,
                MetadataMatchImpl_bind(GrpcMetadataMatch_valueIs(n, v), scope).metadataMatch)
            /\ IsNegationOf(
                MetadataMatchImpl_bind(
                    GrpcMetadataMatch_valueDoesNotStartWith(n, v), scope).metadataMatch,
                MetadataMatchImpl_bind(
                    GrpcMetadataMatch_valueStartsWith(n, v), scope).metadataMatch)
            /\ IsNegationOf(
                MetadataMatchImpl_bind(
                    GrpcMetadataMatch_valueDoesNotEndWith(n, v), scope).metadataMatch,
                MetadataMatchImpl_bind(
                    GrpcMetadataMatch_valueEndsWith(n, v), scope).metadataMatch)
            /\ IsNegationOf(
                MetadataMatchImpl_bind(
                    GrpcMetadataMatch_valueDoesNotMatchRegex(n, v), scope).metadataMatch,
                MetadataMatchImpl_bind(
                    GrpcMetadataMatch_valueMatchesRegex(n, v), scope).metadataMatch)
        /\ \A scope \in Scopes, n \in MetadataNames, start \in RangeEnds, end \in RangeEnds :
            /\ IsPositive(MetadataMatchImpl_bind(
                    GrpcMetadataMatch_valuesIsInRange(n, start, end), scope).metadataMatch,
                    n, "range", [start |-> start, end |-> end])
            /\ IsNegationOf(
                MetadataMatchImpl_bind(
                    GrpcMetadataMatch_valuesIsNotInRange(n, start, end), scope).metadataMatch,
                MetadataMatchImpl_bind(
                    GrpcMetadataMatch_valuesIsInRange(n, start, end), scope).metadataMatch)
        /\ LET supplied == GrpcSuppliedFields(Get(options).match).metadata
               compiled == Get(Get(Get(result).config).grpcSpecConfig).match.metadata
           IN  IsSome(supplied) =>
                /\ IsSome(compiled)
                /\ Len(Get(compiled)) = Len(Get(supplied))
                /\ \A i \in 1..Len(Get(supplied)) :
                    /\ Get(compiled)[i].name = Get(supplied)[i].metadataName
                    /\ Get(compiled)[i].invert \in BOOLEAN
                    /\ Cardinality(PopulatedVariants(Get(compiled)[i].match)) = 1

\* metadata([valuesIsNotInRange('k', 1, 5)]) has compiled: inverted, range 1..5
C23_Witness ==
    /\ BoundGrpc
    /\ Succeeded
    /\ Get(options).match.class = "GrpcGatewayRouteMetadataMatchImpl"
    /\ Get(options).match.metadata = <<GrpcMetadataMatch_valuesIsNotInRange("k", 1, 5)>>
    /\ Get(Get(Get(Get(result).config).grpcSpecConfig).match.metadata) =
        <<[name |-> "k", invert |-> TRUE,
           match |-> [EmptyMetadataMatchProperty EXCEPT
                        !.range = Some([start |-> 1, end |-> 5])]]>>

(***************************************************************************)
(* C24: bind calls on independent specs interleave in any order without    *)
(* coordination: whatever the other caller has done meanwhile, a finished  *)
(* call has thrown or returned what its spec yields when bound alone.      *)
(***************************************************************************)
C24_InterleavedBindsIndependent ==
    \A c \in Callers :
        calls[c].pc = "done" =>
            calls[c].result =
                Some(GatewayRouteSpec_bind(Get(calls[c].spec), Get(calls[c].scope)))

\* the first caller's bind has finished with an error while the second caller's
\* bind of another spec, entered before, is past its format check
C24_Witness ==
    /\ calls["first"].pc = "done"
    /\ IsSome(Get(calls["first"].result).error)
    /\ calls["second"].pc = "pathRewriteCheck"
    /\ calls["second"].spec # calls["first"].spec
    /\ calls["second"].prefixPath # calls["first"].prefixPath

(***************************************************************************)
(* C25: bind leaves its inputs unchanged: over every step of every bind    *)
(* call, failing or not, the spec (match, rewrite, routeTarget, protocol)  *)
(* stays as created, the scope passed in stays the one of the call, and no *)
(* scope construct gains or loses a child.                                 *)
(***************************************************************************)
C25_BindLeavesInputsUnchanged ==
    [][/\ \A c \in Callers :
            /\ IsSome(calls[c].spec) => calls'[c].spec = calls[c].spec
            /\ IsSome(calls[c].scope) => calls'[c].scope = calls[c].scope
       /\ scopeTree' = scopeTree]_vars

\* both callers have bound in the same scope, one call failing and one returning
\* a config: the specs are as created and the scope has no child
C25_Witness ==
    /\ calls["first"].pc = "done"
    /\ calls["second"].pc = "done"
    /\ calls["first"].scope = Some("scopeA")
    /\ calls["second"].scope = Some("scopeA")
    /\ IsSome(Get(calls["first"].result).error)
    /\ IsSome(Get(calls["second"].result).config)
    /\ calls["first"].spec \in {Some(s) : s \in InterleavedSpecs}
    /\ scopeTree["scopeA"] = {}

\* the error of the first check that fails, in the order of the statements
FirstFailingCheck(self, scope) ==
    IF PrefixFormatFails(PrefixPath(self, scope)) THEN Some(InvalidPrefixFormat)
    ELSE IF PrefixRewriteCheckFails(self, scope) THEN Some(PrefixRewriteRequiresPrefixMatch)
    ELSE IF PathRewriteCheckFails(self, scope) THEN Some(PathRewriteConflictsWithPrefixMatch)
    ELSE None

\* a failing bind reports one error, that of the first failing check
ReportsFirstFailingCheck ==
    (BoundHttp /\ IsSome(Get(result).error)) =>
        \E scope \in Scopes :
            /\ FirstFailingCheck(Get(spec), scope) = Some(Get(Get(result).error).message)
            /\ Get(result).config = None

(***************************************************************************)
(* C26: the checks run in a fixed order, the format check first: every     *)
(* HTTP or HTTP2 spec whose prefix does not start with '/' and whose       *)
(* rewrite is a path rewrite fails with InvalidPrefixFormat, and every     *)
(* failing spec reports exactly the error of the first failing check.      *)
(***************************************************************************)
C26_FormatCheckBeforePairingChecks ==
    /\ (/\ BoundHttp
        /\ IsSome(SuppliedPrefix(Get(options).match))
        /\ ~StartsWithSlash(Get(SuppliedPrefix(Get(options).match)))
        /\ SuppliesPathRewrite(Get(options).rewrite))
       => FailedWith(InvalidPrefixFormat)
    /\ ReportsFirstFailingCheck

\* what holds of the order: a non-empty prefix that does not start with '/' paired
\* with a path rewrite fails at the format check, and a failing bind reports the
\* first failing check
C26_FormatCheckFirstForNonEmptyPrefix ==
    /\ (/\ BoundHttp
        /\ IsSome(SuppliedPrefix(Get(options).match))
        /\ Get(SuppliedPrefix(Get(options).match)) # <<>>
        /\ ~StartsWithSlash(Get(SuppliedPrefix(Get(options).match)))
        /\ SuppliesPathRewrite(Get(options).rewrite))
       => FailedWith(InvalidPrefixFormat)
    /\ ReportsFirstFailingCheck

\* prefix 'a' paired with a path rewrite: two checks would fail, the first reports
C26_FormatCheckFirstReached ==
    /\ BoundHttp
    /\ SuppliedPrefix(Get(options).match) = Some(<<"a">>)
    /\ SuppliesPathRewrite(Get(options).rewrite)
    /\ FailedWith(InvalidPrefixFormat)

GrpcOutput == Get(Get(Get(result).config).grpcSpecConfig)

\* the compiled metadata list holds the given matchers, one for one and in order
MetadataInGivenOrder(compiled, given) ==
    /\ IsSome(compiled) <=> IsSome(given)
    /\ IsSome(given) =>
        /\ Len(Get(compiled)) = Len(Get(given))
        /\ \A i \in 1..Len(Get(given)) :
            /\ Get(compiled)[i].name = Get(given)[i].metadataName
            /\ Get(compiled)[i].invert = Get(given)[i].invert
            /\ Get(compiled)[i].match = Get(given)[i].matchProperty

(***************************************************************************)
(* C28: compiling a gRPC spec never fails: every gRPC spec binds to a      *)
(* grpcSpecConfig, and to no HTTP config, whose match holds the hostname,  *)
(* the metadata in the given order and the serviceName of its match, and   *)
(* whose target names the routeTarget; no error of the HTTP checks occurs. *)
(***************************************************************************)
C28_GrpcBindNeverFails ==
    BoundGrpc =>
        /\ Succeeded
        /\ Get(Get(result).config).httpSpecConfig = None
        /\ Get(Get(result).config).http2SpecConfig = None
        /\ IsSome(Get(Get(result).config).grpcSpecConfig)
        /\ \E scope \in Scopes :
            /\ GrpcOutput.match =
                    GrpcGatewayRouteMatch_bind(Get(options).match, scope).requestMatch
            /\ GrpcOutput.match.hostname =
                    BindHostname(GrpcSuppliedFields(Get(options).match).hostname, scope)
        /\ MetadataInGivenOrder(GrpcOutput.match.metadata,
                                GrpcSuppliedFields(Get(options).match).metadata)
        /\ GrpcOutput.match.serviceName = GrpcSuppliedFields(Get(options).match).serviceName
        /\ GrpcOutput.action.target.virtualService.virtualServiceName =
                Get(options).routeTarget.virtualServiceName

\* a gRPC spec matching on two different metadata matchers and a service name
C28_Witness ==
    /\ BoundGrpc
    /\ Succeeded
    /\ IsSome(GrpcOutput.match.metadata)
    /\ Len(Get(GrpcOutput.match.metadata)) = 2
    /\ Get(GrpcOutput.match.metadata)[1] # Get(GrpcOutput.match.metadata)[2]
    /\ IsSome(GrpcOutput.match.serviceName)

\* the trust has been bound; the compiled trust of a successful bind
BoundTrust == IsSome(trust) /\ IsSome(trustConfig)
TrustOutput == Get(Get(trustConfig).config).tlsValidationTrust

(***************************************************************************)
(* C29: binding an ACM trust fails with an error when its list of          *)
(* certificate authorities is empty, and otherwise returns                 *)
(* acm.certificateAuthorityArns holding the authorities' ARNs in the given *)
(* order, one per authority; every acm, file or sds trust that binds       *)
(* successfully populates exactly one of acm, file and sds.                *)
(***************************************************************************)
C29_AcmTrustNeedsAnAuthority ==
    BoundTrust =>
        /\ Get(trust).class = "TlsValidationAcmTrust" =>
            LET authorities == Get(trust).certificateAuthorities
            IN  IF authorities = <<>>
                THEN /\ IsSome(Get(trustConfig).error)
                     /\ Get(trustConfig).config = None
                ELSE /\ Get(trustConfig).error = None
                     /\ IsSome(Get(trustConfig).config)
                     /\ IsSome(TrustOutput.acm)
                     /\ Len(Get(TrustOutput.acm).certificateAuthorityArns) = Len(authorities)
                     /\ \A i \in 1..Len(authorities) :
                            Get(TrustOutput.acm).certificateAuthorityArns[i] =
                                authorities[i].certificateAuthorityArn
        /\ IsSome(Get(trustConfig).config) =>
            Cardinality({k \in {"acm", "file", "sds"} : IsSome(TrustOutput[k])}) = 1

\* an ACM trust of no authority has been bound and rejected
C29_Witness ==
    /\ BoundTrust
    /\ Get(trust).class = "TlsValidationAcmTrust"
    /\ Get(trust).certificateAuthorities = <<>>
    /\ IsSome(Get(trustConfig).error)
    /\ Get(Get(trustConfig).error).message = MissingCertificateAuthority

\* an ACM trust of three authorities, not in sorted order and one given twice, has
\* been bound
C29_OrderedArnsReached ==
    /\ BoundTrust
    /\ Get(trustConfig).error = None
    /\ IsSome(TrustOutput.acm)
    /\ Get(TrustOutput.acm).certificateAuthorityArns = <<"arn:ca-2", "arn:ca-1", "arn:ca-2">>

\* a file trust and an sds trust bind to their own key alone
C29_FileTrustReached ==
    /\ BoundTrust
    /\ Get(trust).class = "TlsValidationFileTrust"
    /\ TrustOutput.file = Some([certificateChain |-> Get(trust).certificateChain])
    /\ TrustOutput.acm = None /\ TrustOutput.sds = None

C29_SdsTrustReached ==
    /\ BoundTrust
    /\ Get(trust).class = "TlsValidationSdsTrust"
    /\ TrustOutput.sds = Some([secretName |-> Get(trust).secretName])
    /\ TrustOutput.acm = None /\ TrustOutput.file = None

=============================================================================
